---- MODULE Spec2Model ----
(***************************************************************************)
(* PyDrocsid: the event dispatcher (events.py) and the keyed lock it       *)
(* serialises dispatches with (multilock.py).                              *)
(*                                                                         *)
(* Python values are modelled as sequences of strings: an atom x is <<x>>, *)
(* the tuple (a, b) is <<a>> \o b, and None is <<"None">>.                 *)
(* The scheduler is asyncio's: one task runs at a time and gives up        *)
(* control only at an await that suspends, so every action below is the    *)
(* code a task runs between two suspension points.                         *)
(***************************************************************************)
EXTENDS Integers, Naturals, Sequences, FiniteSets, TLC

\* ------------------------------------------------------------------ bounds
NumTasks == 2          \* concurrent top-level dispatches
NumUsers == 3          \* tasks using a MultiLock directly
MaxRounds == 1         \* acquire/release rounds of one such task
MaxHandlers == 2       \* handlers registered for one event
MaxSubs == 3           \* subscriptions of one PubSubChannel
MaxRegs == 3           \* uses of the listener decorator
MaxNew == 4            \* constructions of cog classes

Tasks == 1..NumTasks
Users == (NumTasks + 1)..(NumTasks + NumUsers)

\* ------------------------------------------------------------ Python values
None == <<"None">>
Pair(a, b) == <<a>> \o b

\* dict helpers: a dict is a function, its keys are its DOMAIN
DictSet(d, k, v) == [x \in (DOMAIN d) \cup {k} |-> IF x = k THEN v ELSE d[x]]
DictPop(d, k) == [x \in (DOMAIN d) \ {k} |-> d[x]]
DictGet(d, k, default) == IF k \in DOMAIN d THEN d[k] ELSE default
EmptyDict == [x \in {} |-> 0]

\* ------------------------------------------------------------ asyncio.Lock
\* A lock is its _locked flag and its FIFO deque of waiter futures; a future
\* is "pending", "done" (result set, its task not yet resumed) or "cancelled".
NewLock == [locked |-> FALSE, waiters |-> <<>>]

AllCancelled(ws) == \A i \in 1..Len(ws) : ws[i].fut = "cancelled"

\* Lock.acquire up to its first suspension: take the lock when it is free and
\* nobody is queued, else queue a future and suspend.
LockCanTake(lock) == ~lock.locked /\ AllCancelled(lock.waiters)

LockTake(lock) == [lock EXCEPT !.locked = TRUE]

LockEnqueue(lock, t) ==
    [lock EXCEPT !.waiters = Append(@, [task |-> t, fut |-> "pending"])]

\* Lock._wake_up_first: set the result of the first waiter's future
WakeUpFirst(ws) ==
    IF ws # <<>> /\ ws[1].fut = "pending" THEN [ws EXCEPT ![1].fut = "done"] ELSE ws

\* Lock.acquire resumed after its future was set: leave the queue, take the lock
RemoveWaiter(ws, t) == SelectSeq(ws, LAMBDA w : w.task # t)

LockResume(lock, t) ==
    [locked |-> TRUE, waiters |-> RemoveWaiter(lock.waiters, t)]

FutureOf(lock, t) ==
    LET mine == SelectSeq(lock.waiters, LAMBDA w : w.task = t)
    IN IF mine = <<>> THEN "none" ELSE mine[1].fut

\* --------------------------------------------------------------- MultiLock
\* MultiLock.acquire up to the suspension inside lock.acquire().
\* Result: the two dicts and whether the caller is suspended.
acquireGlobal(lk, rq, key, t) ==
    LET lock == DictGet(lk, <<"k1">>, NewLock)
        rq1 == DictSet(rq, <<"k1">>, DictGet(rq, <<"k1">>, 0) + 1)
    IN IF LockCanTake(lock)
       THEN [locks |-> DictSet(lk, <<"k1">>, LockTake(lock)), requests |-> rq1,
             blocked |-> FALSE]
       ELSE [locks |-> DictSet(lk, <<"k1">>, LockEnqueue(lock, t)), requests |-> rq1,
             blocked |-> TRUE]

acquire(lk, rq, key, t) ==
    LET lock == DictGet(lk, key, NewLock)
        rq1 == DictSet(rq, key, DictGet(rq, key, 0) + 1)
    IN IF LockCanTake(lock)
       THEN [locks |-> DictSet(lk, key, LockTake(lock)), requests |-> rq1,
             blocked |-> FALSE]
       ELSE [locks |-> DictSet(lk, key, LockEnqueue(lock, t)), requests |-> rq1,
             blocked |-> TRUE]

\* MultiLock.release. err names the exception it raises, "none" when it returns.
ReleaseCountKept(n) == n

ReleaseCount(n) == n - 1

release(lk, rq, key) ==
    IF key \notin DOMAIN lk
    THEN [locks |-> lk, requests |-> rq, err |-> "KeyError"]
    ELSE IF ~lk[key].locked
    THEN [locks |-> lk, requests |-> rq, err |-> "RuntimeError"]
    ELSE LET lock == [locked |-> FALSE, waiters |-> WakeUpFirst(lk[key].waiters)]
             n == ReleaseCount(rq[key])
         IN IF n = 0
            THEN [locks |-> DictPop(lk, key), requests |-> DictPop(rq, key),
                  err |-> "none"]
            ELSE [locks |-> DictSet(lk, key, lock),
                  requests |-> DictSet(rq, key, n), err |-> "none"]


\* ------------------------------------------------------------------- state
VARIABLES
    locks,            \* MultiLock.locks: key -> asyncio.Lock
    requests,         \* MultiLock.requests: key -> pending requests
    event_handlers,   \* events.event_handlers: event -> list of handlers
    stack,            \* per task: its active call_event_handlers frames
    result,           \* per task: how its top-level dispatch ended
    log,              \* per task: the callables the dispatch invoked, in order
    call,             \* per task: the arguments of its top-level dispatch
    user              \* per MultiLock user: where it is in acquire/release,
                      \* whether its last acquire had to wait, whether
                      \* another key was contended when it acquired, and
                      \* how its last misuse or cancellation ended
VARIABLES
    cog_instance,     \* per cog class: its `instance` attribute
    subscriptions,    \* PubSubChannel._subscriptions
    pub,              \* the call of PubSubChannel.publish: where it is, its result
    sub_task,         \* per subscription: the task gather runs its call in
    sessions,         \* per task: the value of the _sessions context variable
    session_ops       \* per session: the ORM calls made on it, in order

VARIABLES
    registered,       \* listener: how the last registration ended
    cogs,             \* cog classes of one hierarchy: their instance attributes
    deps,             \* check_dependencies: its argument and its result
    ga,               \* gather_any: its tasks and its outcome
    split,            \* split_lines: its arguments and its result
    on_msg,           \* Events.on_message: the message and what was dispatched
    db_task,          \* tasks using db_context: where they are
    lists             \* the list objects the _sessions context variable refers to

dispatch_vars == <<locks, requests, event_handlers, stack, result, log, call, user>>
pubsub_vars == <<cog_instance, subscriptions, pub, sub_task, sessions, session_ops>>
other_vars == <<registered, cogs, deps, ga, split, on_msg, db_task, lists>>
vars == <<dispatch_vars, pubsub_vars, other_vars>>

Events == {"message", "typing", "permission_error"}
Identifiers == {None, <<"7">>}
OrigArgs == <<"msg">>
PreparedArgs == <<"fetched">>
ErrorArgs == {<<"denied">>}
LockKeys == {<<"k1">>, <<"k2">>}

\* The registries the listener decorator can have built: an event has an
\* entry only once a handler was registered for it. "message" has MaxHandlers
\* handlers, "permission_error" any number up to that, "typing" none.
HandlerNames == [i \in 1..MaxHandlers |-> <<"h", i>>]

Registries ==
    { [e \in {"message"} |-> HandlerNames] }
    \cup
    { [e \in {"message", "permission_error"} |->
          IF e = "message" THEN HandlerNames ELSE SubSeq(HandlerNames, 1, m)]
      : m \in 1..MaxHandlers }

\* Cog classes: "A" lives in an enabled package, "B" in a package that is
\* not in Config.ENABLED_COG_PACKAGES
CogClasses == {"A", "B"}
PackageOf == [c \in CogClasses |-> IF c = "A" THEN "PyDrocsid" ELSE "cogs.off"]
ENABLED_COG_PACKAGES == {"PyDrocsid"}

\* What a subscriber function does when awaited: return a value, return
\* None, or raise
FuncOutcomes == {<<"x">>, <<"y">>, None, <<"Exception">>}
Exceptions == {<<"Exception">>, <<"CommitError">>}

\* publish not yet called. exc is the exception gather's future holds,
\* unfinished the subscription calls still running when publish raised
NotPublished == [pc |-> "idle", result |-> <<>>, exc |-> None, unfinished |-> {}]

NoCall == [event |-> "", identifier |-> None, args |-> <<>>, prepare |-> FALSE]

\* A hierarchy of cog classes: Mid and Side derive from Base, Leaf from Mid
Hierarchy == {"Base", "Mid", "Leaf", "Side"}
ParentOf ==
    [c \in Hierarchy |-> CASE c = "Base" -> "Cog" [] c = "Mid" -> "Base"
                            [] c = "Leaf" -> "Mid" [] c = "Side" -> "Base"]
Unset == <<"unset">>

\* No class has an `instance` attribute of its own, no cog object exists
NoCogs == [attr |-> [c \in Hierarchy |-> Unset], created |-> {}, made |-> <<>>]

\* Everything but the registry of event handlers
\* check_dependencies has not been called.
NoDeps ==
    [pc |-> "idle", cogs |-> <<>>, DEPENDENCIES |-> <<>>, available |-> {},
     required_by |-> <<>>, disabled |-> {}, not_available |-> <<>>]

\* gather_any has not been called.
NoGather ==
    [pc |-> "idle", coroutines |-> <<>>, tasks |-> <<>>, event |-> FALSE,
     result |-> <<>>, ret |-> None]

\* split_lines has not been called.
NoSplit ==
    [pc |-> "idle", arg |-> <<>>, text |-> <<>>, max_size |-> 0,
     first_max_size |-> 0, ms |-> 0, out |-> <<>>, i |-> 0, ret |-> <<>>]

\* Events.on_message has not been called.
NoMessage ==
    [pc |-> "idle", self |-> FALSE, prefix |-> "", id |-> "", guild |-> FALSE,
     roles |-> {}, trace |-> <<>>]

\* The tasks using db_context: the parent runs from the start with the
\* context variable unset, which reads as its default; the child is not yet
\* created.
DbTasks == {"parent", "child"}

NoDbTasks ==
    [t \in DbTasks |->
        [started |-> t = "parent", var |-> 1, open |-> <<>>, pc |-> "run",
         failed |-> FALSE]]

\* The list objects `_sessions` may hold, by identity, and the sessions
\* created: lists.heap[1] is the default [] of the context variable.
NoLists == [heap |-> <<<<>>>>, made |-> <<>>]

IdleInit ==
    /\ locks = EmptyDict
    /\ requests = EmptyDict
    /\ stack = [t \in Tasks |-> <<>>]
    /\ result = [t \in Tasks |-> "none"]
    /\ log = [t \in Tasks |-> <<>>]
    /\ call = [t \in Tasks |-> NoCall]
    /\ user = [u \in Users |-> [pc |-> "idle", key |-> None, rounds |-> 0,
                                waited |-> FALSE, sawOther |-> FALSE,
                                left |-> ""]]
    /\ cog_instance = [c \in CogClasses |-> None]
    /\ subscriptions = <<>>
    /\ pub = NotPublished
    /\ sub_task = <<>>
    /\ sessions = [i \in 1..MaxSubs |-> <<>>]
    /\ session_ops = EmptyDict
    /\ registered = <<>>
    /\ cogs = NoCogs
    /\ deps = NoDeps
    /\ ga = NoGather
    /\ split = NoSplit
    /\ on_msg = NoMessage
    /\ db_task = NoDbTasks
    /\ lists = NoLists

Init == event_handlers \in Registries /\ IdleInit

\* ------------------------------------------------------ call_event_handlers
Top(s) == s[Len(s)]
SetTop(s, f) == [s EXCEPT ![Len(s)] = f]
Pop(s) == SubSeq(s, 1, Len(s) - 1)

\* identifier = (event, identifier) if identifier is not None else None
CompositeInverted(event, identifier) ==
    IF identifier = None THEN Pair(event, identifier) ELSE None

CompositeWithoutEvent(event, identifier) == identifier

CompositeConstant(event, identifier) == <<"handler_lock">>

Composite(event, identifier) ==
    IF identifier # None THEN Pair(event, identifier) ELSE None

\* identifier=("permission_error", identifier) of the redirected dispatch
NestedIdentifier(identifier) == Pair("permission_error", identifier)

NewFrame(event, args, identifier, prepare) ==
    [event |-> event, identifier |-> Composite(event, identifier), args |-> args,
     prepare |-> prepare, h |-> 0, pc |-> "start"]

\* One entry of a task's log: a callable the dispatch at this depth awaited
\* (prepare or a handler, `out` telling how it ended), or the end of the
\* dispatch itself (callee "return" or "raise").
LogEntry(st, callee, args, out) ==
    [depth |-> Len(st.stack), event |-> Top(st.stack).event, callee |-> callee,
     args |-> args, out |-> out, eargs |-> <<>>]

SetOut(lg, out, eargs) == [lg EXCEPT ![Len(lg)].out = out, ![Len(lg)].eargs = eargs]

\* event_handlers.get(event, [])
HandlersOf(event) == DictGet(event_handlers, event, <<>>)

\* for handler in ...: the handler called after handler number h
NextHandler(h) == h + 1

\* for handler in ...: the h-th handler the loop yields
HandlerAtReversed(hs, h) == hs[Len(hs) + 1 - h]

HandlerAt(hs, h) == hs[h]

\* event == "permission_error" (line 332)
NeverPermissionErrorEvent(event) == FALSE

IsPermissionErrorEvent(event) == event = "permission_error"

\* args = tuple(prep_args) (line 324)
WithPreparedIgnored(f, prep_args) == f

WithPrepared(f, prep_args) == [f EXCEPT !.args = prep_args]

\* _LockContext.__aexit__
aexitWithoutRelease(lk, rq, key) == [locks |-> lk, requests |-> rq, err |-> "none"]

aexit(lk, rq, key) ==
    IF key # None THEN release(lk, rq, key)
    ELSE [locks |-> lk, requests |-> rq, err |-> "none"]

\* Only a nested dispatch returning True lets the caller's loop go on.
NestedReturnedTrue(out) == out = "True"

\* The nested dispatch of line 335 returned: its value, True or False, is not
\* used.
NestedReturned(out) == out \in {"True", "False"}

RECURSIVE ForLoop(_, _), AsyncWithExit(_, _)

\* The top frame leaves `async with handler_lock[identifier]` returning "True"
\* or "False" or raising: __aexit__ releases, then the caller goes on. The
\* caller of a nested dispatch is the except clause of line 331: a return
\* value is dropped and the for loop continues, an exception leaves the
\* enclosing dispatch too.
AsyncWithExit(st, outcome) ==
    LET f == Top(st.stack)
        rel == aexit(st.locks, st.requests, f.identifier)
        out == IF rel.err # "none" THEN rel.err ELSE outcome
        rest == Pop(st.stack)
        end == LogEntry(st, IF out \in {"True", "False"} THEN <<"return">>
                                                          ELSE <<"raise">>, <<>>, out)
        st1 == [st EXCEPT !.locks = rel.locks, !.requests = rel.requests,
                          !.stack = rest, !.log = Append(@, end)]
    IN IF rest = <<>> THEN [st1 EXCEPT !.result = out]
       ELSE IF NestedReturned(out) THEN ForLoop(st1, NextHandler(Top(rest).h))
       ELSE AsyncWithExit(st1, out)

\* The for loop of line 326 arriving at handler number h: call it (and suspend
\* in it), or fall out of the loop and return True.
ForLoop(st, h) ==
    LET f == Top(st.stack)
        hs == HandlersOf(f.event)
    IN IF h > Len(hs) THEN AsyncWithExit(st, "True")
       ELSE [st EXCEPT !.stack = SetTop(@, [f EXCEPT !.h = h, !.pc = "handler"]),
                       !.log = Append(@, LogEntry(st, HandlerAt(hs, h), f.args, "running"))]

\* Lines 320-326 once the lock is held: call prepare, or go to the handlers
Begin(st) ==
    LET f == Top(st.stack)
    IN IF f.prepare
       THEN [st EXCEPT !.stack = SetTop(@, [f EXCEPT !.pc = "prepare"]),
                       !.log = Append(@, LogEntry(st, <<"prepare">>, <<>>, "running"))]
       ELSE ForLoop(st, 1)

\* _LockContext.__aenter__ of the top frame, up to the first suspension
aenter(st, t) ==
    LET f == Top(st.stack)
    IN IF f.identifier = None THEN Begin(st)
       ELSE LET a == acquire(st.locks, st.requests, f.identifier, t)
                st1 == [st EXCEPT !.locks = a.locks, !.requests = a.requests]
            IN IF a.blocked
               THEN [st1 EXCEPT !.stack = SetTop(@, [f EXCEPT !.pc = "waiting"])]
               ELSE Begin(st1)

\* except StopEventHandling: return False (lines 329-330)
OnStopContinue(st) == ForLoop(st, NextHandler(Top(st.stack).h))

OnStopReturnsTrue(st) == AsyncWithExit(st, "True")

OnStopEventHandling(st) == AsyncWithExit(st, "False")

\* An exception no except clause of the loop matches leaves the dispatch
OnExceptionSwallowed(st, exc) == ForLoop(st, NextHandler(Top(st.stack).h))

OnException(st, exc) == AsyncWithExit(st, exc)

\* The frame of call_event_handlers("permission_error", *e.args,
\* identifier=("permission_error", identifier)) (line 335)
RedirectFrameArgsKept(f, eargs) ==
    NewFrame("permission_error", f.args, NestedIdentifier(f.identifier), FALSE)

RedirectFrame(f, eargs) ==
    NewFrame("permission_error", eargs, NestedIdentifier(f.identifier), FALSE)

StateOf(t) ==
    [locks |-> locks, requests |-> requests, stack |-> stack[t],
     result |-> result[t], log |-> log[t]]

Commit(t, st) ==
    /\ locks' = st.locks
    /\ requests' = st.requests
    /\ stack' = [stack EXCEPT ![t] = st.stack]
    /\ result' = [result EXCEPT ![t] = st.result]
    /\ log' = [log EXCEPT ![t] = st.log]

\* A task calls call_event_handlers(event, *args, identifier=..., prepare=...)
call_event_handlers(t, event, identifier, prepare) ==
    /\ stack[t] = <<>>
    /\ result[t] = "none"
    /\ call' = [call EXCEPT ![t] = [event |-> event, identifier |-> identifier,
                                    args |-> OrigArgs, prepare |-> prepare]]
    /\ Commit(t, aenter([StateOf(t) EXCEPT
                           !.stack = <<NewFrame(event, OrigArgs, identifier, prepare)>>],
                        t))
    /\ UNCHANGED <<event_handlers, user, pubsub_vars, other_vars>>

\* The lock was released to this waiter: lock.acquire() returns (line 37)
LockAcquired(t) ==
    /\ stack[t] # <<>>
    /\ Top(stack[t]).pc = "waiting"
    /\ LET key == Top(stack[t]).identifier
       IN /\ key \in DOMAIN locks
          /\ FutureOf(locks[key], t) = "done"
          /\ Commit(t, Begin([StateOf(t) EXCEPT
                                !.locks = DictSet(locks, key, LockResume(locks[key], t))]))
    /\ UNCHANGED <<event_handlers, call, user, pubsub_vars, other_vars>>

\* prepare() returns None (line 322), returns an iterable (line 324) or raises
PrepareDone(t, ret) ==
    /\ stack[t] # <<>>
    /\ Top(stack[t]).pc = "prepare"
    /\ LET st == [StateOf(t) EXCEPT !.log = SetOut(@, ret, <<>>)]
       IN Commit(t,
            CASE ret = "None" -> AsyncWithExit(st, "False")
              [] ret = "args" ->
                   ForLoop([st EXCEPT !.stack =
                              SetTop(@, WithPrepared(Top(@), PreparedArgs))], 1)
              [] OTHER -> OnException(st, ret))
    /\ UNCHANGED <<event_handlers, call, user, pubsub_vars, other_vars>>

Running(t) == stack[t] # <<>> /\ Top(stack[t]).pc = "handler"

\* The running handler returns: the loop goes on (line 326)
HandlerReturns(t) ==
    /\ Running(t)
    /\ Commit(t, ForLoop([StateOf(t) EXCEPT !.log = SetOut(@, "ok", <<>>)],
                         NextHandler(Top(stack[t]).h)))
    /\ UNCHANGED <<event_handlers, call, user, pubsub_vars, other_vars>>

\* The running handler raises StopEventHandling (lines 329-330)
HandlerStops(t) ==
    /\ Running(t)
    /\ Commit(t, OnStopEventHandling([StateOf(t) EXCEPT
                                        !.log = SetOut(@, "StopEventHandling", <<>>)]))
    /\ UNCHANGED <<event_handlers, call, user, pubsub_vars, other_vars>>

\* The running handler raises PermissionError(*eargs) (lines 331-335)
HandlerPermissionError(t, eargs) ==
    /\ Running(t)
    /\ LET f == Top(stack[t])
           st == [StateOf(t) EXCEPT !.log = SetOut(@, "PermissionError", eargs)]
       IN Commit(t,
            IF IsPermissionErrorEvent(f.event)
            THEN AsyncWithExit(st, "PermissionError")
            ELSE aenter([st EXCEPT !.stack =
                           Append(SetTop(@, [f EXCEPT !.pc = "nested"]),
                                  RedirectFrame(f, eargs))],
                        t))
    /\ UNCHANGED <<event_handlers, call, user, pubsub_vars, other_vars>>

\* The running handler raises any other exception: nothing catches it
HandlerRaises(t) ==
    /\ Running(t)
    /\ Commit(t, OnException([StateOf(t) EXCEPT !.log = SetOut(@, "Exception", <<>>)],
                             "Exception"))
    /\ UNCHANGED <<event_handlers, call, user, pubsub_vars, other_vars>>

Next ==
    \/ \E t \in Tasks, e \in Events, i \in Identifiers, p \in BOOLEAN :
          call_event_handlers(t, e, i, p)
    \/ \E t \in Tasks : LockAcquired(t)
    \/ \E t \in Tasks, r \in {"None", "args", "Exception"} : PrepareDone(t, r)
    \/ \E t \in Tasks : HandlerReturns(t)
    \/ \E t \in Tasks : HandlerStops(t)
    \/ \E t \in Tasks, a \in ErrorArgs : HandlerPermissionError(t, a)
    \/ \E t \in Tasks : HandlerRaises(t)

Spec == Init /\ [][Next]_vars

\* A dispatch can take a step (TaskStep is enabled): it awaits prepare or a
\* handler, or the lock it waits for was handed to it
CanStep(t) ==
    /\ stack[t] # <<>>
    /\ \/ Top(stack[t]).pc \in {"prepare", "handler"}
       \/ /\ Top(stack[t]).pc = "waiting"
          /\ Top(stack[t]).identifier \in DOMAIN locks
          /\ FutureOf(locks[Top(stack[t]).identifier], t) = "done"

\* The steps of a dispatch that was called: the event loop resumes a task
\* whose future is set, and prepare steps and handlers terminate
TaskStep(t) ==
    \/ LockAcquired(t)
    \/ \E r \in {"None", "args", "Exception"} : PrepareDone(t, r)
    \/ HandlerReturns(t)
    \/ HandlerStops(t)
    \/ \E a \in ErrorArgs : HandlerPermissionError(t, a)
    \/ HandlerRaises(t)

\* Dispatches of one event whose handlers can be redirected, under a
\* scheduler that runs every task that can take a step
FairNext ==
    \/ \E t \in Tasks, i \in Identifiers, p \in BOOLEAN :
          call_event_handlers(t, "message", i, p)
    \/ \E t \in Tasks : TaskStep(t)

\* The fairness condition is weak fairness of TaskStep(t), written with
\* CanStep(t), the condition under which TaskStep(t) is enabled
FairSpec ==
    /\ Init /\ [][FairNext]_vars
    /\ \A t \in Tasks : ([]<>~CanStep(t)) \/ ([]<><<TaskStep(t)>>_vars)

\* ---------------------------------------------------------------- listener
\* Function names are sequences of characters
OnPrefix == <<"o", "n", "_">>

FuncNames ==
    { <<"o", "n", "_", "a">>, <<"o", "n", "_", "b">>, <<"o", "n", "_">>,
      <<"o", "n", "a">>, <<"a">>, <<"_", "o", "n", "_", "a">>,
      <<"O", "n", "_", "a">> }

\* Two functions can have the same name (methods of different classes)
Funcs == [name : FuncNames, id : 1..2]

\* name.startswith("on_"), line 296
startswithAnything(name, prefix) == TRUE

startswith(name, prefix) ==
    Len(name) >= Len(prefix) /\ SubSeq(name, 1, Len(prefix)) = prefix

\* name[3:], line 298
EventName(name) == SubSeq(name, 4, Len(name))

\* The module is imported: the registry is empty (line 286)
RegInit == event_handlers = EmptyDict /\ IdleInit

\* @listener applied to func (lines 292-299)
listener(func) ==
    /\ Len(registered) < MaxRegs
    /\ IF ~startswith(func.name, OnPrefix)
       THEN /\ registered' = Append(registered, [func |-> func, out |-> "Exception"])
            /\ UNCHANGED event_handlers
       ELSE /\ event_handlers' =
                  DictSet(event_handlers, EventName(func.name),
                          Append(DictGet(event_handlers, EventName(func.name), <<>>), func))
            /\ registered' = Append(registered, [func |-> func, out |-> "returned"])
    /\ UNCHANGED <<locks, requests, stack, result, log, call, user, pubsub_vars,
                   cogs, deps, ga, split, on_msg, db_task, lists>>

RegNext == \E func \in Funcs : listener(func)

RegSpec == RegInit /\ [][RegNext]_vars

\* --------------------------------------------------------------------- Cog
RECURSIVE mro(_), instance(_, _), SetInstances(_, _, _)

\* cls.mro(), ending with Cog (the classes above Cog are never reached)
mro(cls) == IF cls = "Cog" THEN <<"Cog">> ELSE <<cls>> \o mro(ParentOf[cls])

\* cls.instance: the attribute of the first class of the mro that has one;
\* Cog.instance is None (line 30)
instance(attr, cls) ==
    IF cls = "Cog" THEN None
    ELSE IF attr[cls] # Unset THEN attr[cls]
    ELSE instance(attr, ParentOf[cls])

\* for c in cls.mro(): if c is Cog: break; c.instance = c.instance or cls.instance
SetInstances(attr, cls, cs) ==
    IF cs = <<>> \/ cs[1] = "Cog" THEN attr
    ELSE LET c == cs[1]
             v == IF instance(attr, c) # None THEN instance(attr, c)
                  ELSE instance(attr, cls)
         IN SetInstances([attr EXCEPT ![c] = v], cls, Tail(cs))

\* Cog.__new__ (lines 33-47): the attributes, the objects and the return value
cog_newAlways(st, cls) ==
    LET obj == <<cls, Cardinality(st.created) + 1>>
        a1 == [st.attr EXCEPT ![cls] = obj]
        a2 == SetInstances(a1, cls, mro(cls))
    IN [attr |-> a2, created |-> st.created \cup {obj}, ret |-> instance(a2, cls)]

cog_new(st, cls) ==
    IF instance(st.attr, cls) = None
    THEN LET obj == <<cls, Cardinality(st.created) + 1>>
             a1 == [st.attr EXCEPT ![cls] = obj]
             a2 == SetInstances(a1, cls, mro(cls))
         IN [attr |-> a2, created |-> st.created \cup {obj}, ret |-> instance(a2, cls)]
    ELSE [attr |-> st.attr, created |-> st.created, ret |-> instance(st.attr, cls)]

\* cls(...) is called; made records what it returned and what every class's
\* instance attribute reads afterwards
New(cls) ==
    /\ Len(cogs.made) < MaxNew
    /\ LET r == cog_new(cogs, cls)
       IN cogs' = [attr |-> r.attr, created |-> r.created,
                   made |-> Append(cogs.made,
                                   [cls |-> cls, ret |-> r.ret,
                                    view |-> [c \in Hierarchy |-> instance(r.attr, c)]])]
    /\ UNCHANGED <<dispatch_vars, pubsub_vars, registered, deps, ga, split, on_msg,
                   db_task, lists>>

CogNext == \E cls \in Hierarchy : New(cls)

CogSpec == Init /\ [][CogNext]_vars

(***************************************************************************)
(* check_dependencies (cog.py).  A cog is identified with its class, as    *)
(* a cog class has one instance; DEPENDENCIES maps a class to its list of  *)
(* required classes.                                                       *)
(***************************************************************************)
DepClasses == {"CogA", "CogB", "CogC", "CogD"}

MaxCogs == 3

MaxDeps == 2

\* The lists of at most n distinct elements of S.
DistinctSeqs(S, n) ==
    {q \in UNION {[1..k -> S] : k \in 0..n} :
        \A i, j \in 1..Len(q) : i # j => q[i] # q[j]}

CogLists == DistinctSeqs(DepClasses, MaxCogs)

DependencyLists == DistinctSeqs(DepClasses, MaxDeps)

\* for cog in cogs: for dep in cog.DEPENDENCIES: the pairs (dep, cog) in the
\* order of iteration.
RECURSIVE DepPairs(_, _)
DepPairs(given, D) ==
    IF given = <<>> THEN <<>>
    ELSE [i \in 1..Len(D[Head(given)]) |-> <<D[Head(given)][i], Head(given)>>]
             \o DepPairs(Tail(given), D)

\* The keys of the dict built by setdefault, in insertion order.
RECURSIVE KeysOf(_)
KeysOf(pairs) ==
    IF pairs = <<>> THEN <<>>
    ELSE LET init == KeysOf(SubSeq(pairs, 1, Len(pairs) - 1))
             k == pairs[Len(pairs)][1]
         IN IF \E i \in 1..Len(init) : init[i] = k THEN init ELSE Append(init, k)

\* required_by maps class x to the list of given that depend on x.
required_by(given, D) ==
    LET pairs == DepPairs(given, D)
    IN [keys |-> KeysOf(pairs),
        of |-> [k \in DepClasses |->
                  LET s == SelectSeq(pairs, LAMBDA x : x[1] = k)
                  IN [i \in 1..Len(s) |-> s[i][2]]]]

InDict(rb, k) == \E i \in 1..Len(rb.keys) : rb.keys[i] = k

\* The for loop that disables nothing further.
RECURSIVE disable_dependentsOnce(_, _, _)
disable_dependentsOnce(list, disabled, not_available) ==
    IF list = <<>> THEN [disabled |-> disabled, not_available |-> not_available]
    ELSE IF Head(list) \in disabled
         THEN disable_dependentsOnce(Tail(list), disabled, not_available)
         ELSE disable_dependentsOnce(Tail(list), disabled \cup {Head(list)},
                                     not_available)

\* for cog in required_by[dependency]: skip the disabled ones, disable the
\* others and append their classes to not_available.
RECURSIVE disable_dependents(_, _, _)
disable_dependents(list, disabled, not_available) ==
    IF list = <<>> THEN [disabled |-> disabled, not_available |-> not_available]
    ELSE IF Head(list) \in disabled
         THEN disable_dependents(Tail(list), disabled, not_available)
         ELSE disable_dependents(Tail(list), disabled \cup {Head(list)},
                                 Append(not_available, Head(list)))

\* available = {type(cog) for cog in cogs}
TypesOf(given) == {given[i] : i \in 1..Len(given)}

DepUnchanged ==
    UNCHANGED <<dispatch_vars, pubsub_vars, registered, cogs, ga, split, on_msg,
                db_task, lists>>

\* check_dependencies(cogs) up to the while loop.
check_dependencies(given, D) ==
    /\ deps.pc = "idle"
    /\ LET available == TypesOf(given)
           rb == required_by(given, D)
       IN deps' = [pc |-> "loop", cogs |-> given, DEPENDENCIES |-> D,
                   available |-> available, required_by |-> rb,
                   disabled |-> {},
                   not_available |->
                       SelectSeq(rb.keys, LAMBDA k : k \notin available)]
    /\ DepUnchanged

\* One iteration of `while not_available`.
DepLoop ==
    /\ deps.pc = "loop"
    /\ deps.not_available # <<>>
    /\ LET n == Len(deps.not_available)
           dependency == deps.not_available[n]
           rest == SubSeq(deps.not_available, 1, n - 1)
       IN IF ~InDict(deps.required_by, dependency)
          THEN deps' = [deps EXCEPT !.not_available = rest]
          ELSE LET r == disable_dependents(deps.required_by.of[dependency],
                                           deps.disabled, rest)
               IN deps' = [deps EXCEPT !.disabled = r.disabled,
                                       !.not_available = r.not_available]
    /\ DepUnchanged

\* return disabled
DepReturn ==
    /\ deps.pc = "loop"
    /\ deps.not_available = <<>>
    /\ deps' = [deps EXCEPT !.pc = "done"]
    /\ DepUnchanged

\* The cogs given are any list of cogs of distinct classes, each with any list
\* of DEPENDENCIES; a class without a cog is only ever named as a dependency.
DepNext ==
    \/ /\ deps.pc = "idle"
       /\ \E given \in CogLists :
            \E Dg \in [TypesOf(given) -> DependencyLists] :
               check_dependencies(given,
                   [c \in DepClasses |->
                       IF c \in TypesOf(given) THEN Dg[c] ELSE <<>>])
    \/ DepLoop
    \/ DepReturn

DepSpec == RegInit /\ [][DepNext]_vars

(***************************************************************************)
(* gather_any (async_utils.py, async_thread.py; the two bodies are the     *)
(* same).  A coroutine is given by how it ends (it returns or raises an    *)
(* Exception) and by whether it catches the CancelledError thrown into it. *)
(* Task i is pending or done; must_cancel is the request left by           *)
(* Task.cancel until the event loop next runs the task.                    *)
(***************************************************************************)
MaxCoros == 3

Coroutines == [ends : {"return", "raise"}, catches : BOOLEAN]

GaUnchanged ==
    UNCHANGED <<dispatch_vars, pubsub_vars, registered, cogs, deps, split, on_msg,
                db_task, lists>>

\* tasks = [create_task(inner(i, c)) ...]; await event.wait()
gather_any(coroutines) ==
    /\ ga.pc = "idle"
    /\ ga' = [ga EXCEPT !.pc = "waiting",
                        !.coroutines = coroutines,
                        !.tasks = [i \in 1..Len(coroutines) |->
                                     [done |-> FALSE, cancelled |-> FALSE,
                                      must_cancel |-> FALSE]]]
    /\ GaUnchanged

\* inner(i, coro): the coroutine ends; its outcome is appended to result and
\* the event is set.  Indices count from 0 as enumerate does.
inner(i) ==
    /\ ga.pc # "idle"
    /\ ~ga.tasks[i].done
    /\ ~ga.tasks[i].must_cancel
    /\ ga' = [ga EXCEPT !.result = Append(@, <<i - 1, ga.coroutines[i].ends = "return",
                                              <<ga.coroutines[i].ends, i - 1>>>>),
                        !.event = TRUE,
                        !.tasks[i].done = TRUE]
    /\ GaUnchanged

\* Task.cancel(): the request is recorded, nothing is thrown yet.
cancel(task) == IF task.done THEN task ELSE [task EXCEPT !.must_cancel = TRUE]

\* gather_any resumes from event.wait(): cancel every task not done, then
\* return or raise by result[0].
GatherResume ==
    /\ ga.pc = "waiting"
    /\ ga.event
    /\ LET first == ga.result[1]
       IN ga' = [ga EXCEPT !.tasks = [i \in 1..Len(ga.tasks) |-> cancel(ga.tasks[i])],
                           !.pc = IF first[2] THEN "returned" ELSE "raised",
                           !.ret = <<first[1], first[3]>>]
    /\ GaUnchanged

\* The event loop runs a task with a pending cancel request: CancelledError is
\* thrown into the coroutine at its await.  `except Exception` in inner does
\* not catch it, so the task ends cancelled, unless the coroutine itself
\* catches the error and goes on.
ThrowCancelled(i) ==
    /\ ga.pc # "idle"
    /\ ~ga.tasks[i].done
    /\ ga.tasks[i].must_cancel
    /\ ga' = [ga EXCEPT !.tasks[i] =
                 IF ga.coroutines[i].catches
                 THEN [@ EXCEPT !.must_cancel = FALSE]
                 ELSE [@ EXCEPT !.must_cancel = FALSE, !.done = TRUE,
                                !.cancelled = TRUE]]
    /\ GaUnchanged

GaNext ==
    \/ /\ ga.pc = "idle"
       /\ \E n \in 1..MaxCoros : \E coroutines \in [1..n -> Coroutines] :
             gather_any(coroutines)
    \/ \E i \in 1..Len(ga.tasks) : inner(i)
    \/ GatherResume
    \/ \E i \in 1..Len(ga.tasks) : ThrowCancelled(i)

GaSpec == RegInit /\ [][GaNext]_vars

(***************************************************************************)
(* split_lines (embeds.py, util.py; the two bodies are the same).  A       *)
(* string is a sequence of characters; positions count from 0 as in the    *)
(* source.                                                                 *)
(***************************************************************************)
MaxText == 6

MaxSize == 3

Alphabet == {"a", "b", " ", "\n"}

Whitespace == {" ", "\n"}

Texts == UNION {[1..k -> Alphabet] : k \in 0..MaxText}

Sizes == 1..MaxSize

\* first_max_size: Optional[int] = None; the code only tests its truth, so 0
\* stands for the argument left out.
FirstSizes == {0} \cup Sizes

\* str.strip(" \n")
RECURSIVE lstrip(_)
lstrip(s) ==
    IF s # <<>> /\ Head(s) \in Whitespace THEN lstrip(Tail(s)) ELSE s

RECURSIVE rstrip(_)
rstrip(s) ==
    IF s # <<>> /\ s[Len(s)] \in Whitespace
    THEN rstrip(SubSeq(s, 1, Len(s) - 1)) ELSE s

strip(s) == rstrip(lstrip(s))

\* text[a:b]
slice(text, a, b) ==
    SubSeq(text, a + 1, IF b < Len(text) THEN b ELSE Len(text))

\* text.rfind(chr, start, end): the highest position of chr in
\* text[start:end], or -1.
rfind(text, chr, start, end) ==
    LET last == (IF end < Len(text) THEN end ELSE Len(text)) - 1
        hits == {k \in start..last : text[k + 1] = chr}
    IN IF hits = {} THEN -1 ELSE CHOOSE k \in hits : \A h \in hits : h <= k

\* The position of the split: a line break, else a space, else -1.
split_at(st) ==
    LET j == rfind(st.text, "\n", st.i, st.i + st.ms + 1)
    IN IF j = -1 THEN rfind(st.text, " ", st.i, st.i + st.ms + 1) ELSE j

\* The loop body with a hard split one character late.
split_stepLate(st) ==
    LET j == split_at(st)
    IN IF j = -1
       THEN [st EXCEPT !.out = Append(@, slice(st.text, st.i, st.i + st.ms + 1)),
                       !.i = st.i + st.ms + 1,
                       !.ms = st.max_size]
       ELSE [st EXCEPT !.out = Append(@, slice(st.text, st.i, j)),
                       !.i = j + 1,
                       !.ms = st.max_size]

\* The body of `while i + ms < len(text)`.
split_step(st) ==
    LET j == split_at(st)
    IN IF j = -1
       THEN [st EXCEPT !.out = Append(@, slice(st.text, st.i, st.i + st.ms)),
                       !.i = st.i + st.ms,
                       !.ms = st.max_size]
       ELSE [st EXCEPT !.out = Append(@, slice(st.text, st.i, j)),
                       !.i = j + 1,
                       !.ms = st.max_size]

\* [y for x in parts if (y := x.strip(" \n"))]
RECURSIVE strip_all(_)
strip_all(parts) ==
    IF parts = <<>> THEN <<>>
    ELSE LET y == strip(Head(parts))
         IN (IF y = <<>> THEN <<>> ELSE <<y>>) \o strip_all(Tail(parts))

SplitUnchanged ==
    UNCHANGED <<dispatch_vars, pubsub_vars, registered, cogs, deps, ga, on_msg,
                db_task, lists>>

\* split_lines(text, max_size, first_max_size=...) up to the while loop.
split_lines(text, max_size, first_max_size) ==
    /\ split.pc = "idle"
    /\ split' = [pc |-> "loop", arg |-> text, text |-> strip(text),
                 max_size |-> max_size, first_max_size |-> first_max_size,
                 ms |-> IF first_max_size = 0
                        THEN max_size ELSE first_max_size,
                 out |-> <<>>, i |-> 0, ret |-> <<>>]
    /\ SplitUnchanged

\* One iteration of the while loop.
SplitLoop ==
    /\ split.pc = "loop"
    /\ split.i + split.ms < Len(split.text)
    /\ split' = split_step(split)
    /\ SplitUnchanged

\* return [...]
SplitReturn ==
    /\ split.pc = "loop"
    /\ ~(split.i + split.ms < Len(split.text))
    /\ split' = [split EXCEPT
                    !.pc = "done",
                    !.ret = strip_all(Append(split.out,
                                slice(split.text, split.i, Len(split.text))))]
    /\ SplitUnchanged

SplitNext ==
    \/ /\ split.pc = "idle"
       /\ \E text \in Texts, max_size \in Sizes, first_max_size \in FirstSizes :
             split_lines(text, max_size, first_max_size)
    \/ SplitLoop
    \/ SplitReturn

SplitSpec == RegInit /\ [][SplitNext]_vars

(***************************************************************************)
(* Events.on_message (events.py).  A message is given by whether the bot   *)
(* is its author, by its stripped content (a mention "<@id>", "<@!id>" or  *)
(* "<@&id>" and nothing else, or any other text, prefix ""), by whether it *)
(* was sent in a guild and by the roles the bot has there.  The dispatches *)
(* and process_commands are awaited calls: each is a step of its own that  *)
(* ends with a return value or an exception.  trace lists what on_message  *)
(* called and how each call ended.                                         *)
(***************************************************************************)
MentionIds == {"bot_user", "other_user", "managed_role", "plain_role"}

MentionPrefixes == {"<@", "<@!", "<@&"}

BotRoles == SUBSET {"managed_role", "plain_role"}

\* re.match(r"^<@[&!]?(\d+)>$", message.content.strip())
match(m) == m.prefix \in MentionPrefixes

\* The bot's user id and, in a guild, the ids of its managed roles.
mentions(m) ==
    {"bot_user"} \cup (IF m.guild THEN m.roles \cap {"managed_role"} ELSE {})

\* Every return value of the message dispatch lets on_message go on.
ProceedsAlways(out) == out \in {"True", "False"}

\* if not await call_event_handlers("message", ...): return
Proceeds(out) == out = "True"

MsgUnchanged ==
    UNCHANGED <<dispatch_vars, pubsub_vars, registered, cogs, deps, ga, split,
                db_task, lists>>

Dispatch(event) == <<"call_event_handlers", event>>

\* on_message up to its first await.
on_message(self, prefix, id, guild, roles) ==
    /\ on_msg.pc = "idle"
    /\ on_msg' = [pc |-> IF self THEN "self_message" ELSE "message",
                  self |-> self, prefix |-> prefix, id |-> id, guild |-> guild,
                  roles |-> roles,
                  trace |-> <<Dispatch(IF self THEN "self_message" ELSE "message")>>]
    /\ MsgUnchanged

\* The awaited dispatch ends returning True or False or raising; on_message
\* runs on to its next await or to its end.
DispatchEnds(out) ==
    /\ on_msg.pc \in {"self_message", "message", "bot_ping"}
    /\ LET tr == Append(on_msg.trace, <<"ended", on_msg.pc, out>>)
       IN on_msg' =
            IF out = "raise" THEN [on_msg EXCEPT !.pc = "raised", !.trace = tr]
            ELSE IF on_msg.pc \in {"self_message", "bot_ping"}
            THEN [on_msg EXCEPT !.pc = "returned", !.trace = tr]
            ELSE IF ~Proceeds(out)
            THEN [on_msg EXCEPT !.pc = "returned", !.trace = tr]
            ELSE IF match(on_msg) /\ on_msg.id \in mentions(on_msg)
            THEN [on_msg EXCEPT !.pc = "bot_ping",
                                !.trace = Append(tr, Dispatch("bot_ping"))]
            ELSE [on_msg EXCEPT !.pc = "process_commands",
                                !.trace = Append(tr, <<"process_commands">>)]
    /\ MsgUnchanged

\* await bot.process_commands(message) ends.
ProcessCommandsEnds(out) ==
    /\ on_msg.pc = "process_commands"
    /\ on_msg' = [on_msg EXCEPT
                     !.pc = IF out = "raise" THEN "raised" ELSE "returned",
                     !.trace = Append(@, <<"ended", "process_commands", out>>)]
    /\ MsgUnchanged

MsgNext ==
    \/ /\ on_msg.pc = "idle"
       /\ \E self \in BOOLEAN, prefix \in MentionPrefixes \cup {""},
            id \in MentionIds, guild \in BOOLEAN, roles \in BotRoles :
             /\ ~guild => roles = {}
             /\ prefix = "" => id = "other_user"
             /\ on_message(self, prefix, id, guild, roles)
    \/ \E out \in {"True", "False", "raise"} : DispatchEnds(out)
    \/ \E out \in {"return", "raise"} : ProcessCommandsEnds(out)

MsgSpec == RegInit /\ [][MsgNext]_vars

\* ------------------------------------------------- tasks using a MultiLock
\* Some key other than k is held by one task while another is queued for it
Contended(k) ==
    \E k2 \in DOMAIN locks \ {k} :
        /\ \E v \in Users : user[v].key = k2 /\ user[v].pc = "holding"
        /\ \E v \in Users : user[v].key = k2 /\ user[v].pc = "waiting"

\* A task calls `await multilock.acquire(key)` (lines 34-37)
UserAcquire(u, key) ==
    /\ user[u].pc = "idle"
    /\ user[u].rounds < MaxRounds
    /\ LET a == acquire(locks, requests, key, u)
       IN /\ locks' = a.locks
          /\ requests' = a.requests
          /\ user' = [user EXCEPT ![u].key = key,
                        ![u].pc = IF a.blocked THEN "waiting" ELSE "holding",
                        ![u].waited = a.blocked,
                        ![u].sawOther = Contended(key)]
    /\ UNCHANGED <<event_handlers, stack, result, log, call, pubsub_vars, other_vars>>

\* Its future was set by a release: lock.acquire() returns (line 37)
UserResume(u) ==
    /\ user[u].pc = "waiting"
    /\ user[u].key \in DOMAIN locks
    /\ FutureOf(locks[user[u].key], u) = "done"
    /\ locks' = DictSet(locks, user[u].key, LockResume(locks[user[u].key], u))
    /\ user' = [user EXCEPT ![u].pc = "holding"]
    /\ UNCHANGED <<requests, event_handlers, stack, result, log, call, pubsub_vars, other_vars>>

\* The holder calls `multilock.release(key)` (lines 39-45)
UserRelease(u) ==
    /\ user[u].pc = "holding"
    /\ LET r == release(locks, requests, user[u].key)
       IN /\ locks' = r.locks
          /\ requests' = r.requests
          /\ user' = [user EXCEPT ![u].pc = IF r.err = "none" THEN "idle" ELSE r.err,
                                  ![u].rounds = @ + 1]
    /\ UNCHANGED <<event_handlers, stack, result, log, call, pubsub_vars, other_vars>>

LockNext ==
    \/ \E u \in Users, k \in LockKeys : UserAcquire(u, k)
    \/ \E u \in Users : UserResume(u)
    \/ \E u \in Users : UserRelease(u)

LockSpec == Init /\ [][LockNext]_vars

\* ------------------------------------- tasks using `async with multilock[k]`
AllKeys == LockKeys \cup {None}

\* _LockContext.__aenter__ (lines 15-17) up to the suspension in acquire
ctx_aenter(lk, rq, key, t) ==
    IF key # None THEN acquire(lk, rq, key, t)
    ELSE [locks |-> lk, requests |-> rq, blocked |-> FALSE]

\* `async with multilock[key]:` is entered
CtxEnter(u, key) ==
    /\ user[u].pc = "idle"
    /\ user[u].rounds < MaxRounds
    /\ LET a == ctx_aenter(locks, requests, key, u)
       IN /\ locks' = a.locks
          /\ requests' = a.requests
          /\ user' = [user EXCEPT ![u].key = key,
                        ![u].pc = IF a.blocked THEN "entering" ELSE "inblock",
                        ![u].waited = a.blocked]
    /\ UNCHANGED <<event_handlers, stack, result, log, call, pubsub_vars, other_vars>>

\* The future of a task suspended in __aenter__ was set: the block starts
CtxResume(u) ==
    /\ user[u].pc = "entering"
    /\ user[u].key \in DOMAIN locks
    /\ FutureOf(locks[user[u].key], u) = "done"
    /\ locks' = DictSet(locks, user[u].key, LockResume(locks[user[u].key], u))
    /\ user' = [user EXCEPT ![u].pc = "inblock"]
    /\ UNCHANGED <<requests, event_handlers, stack, result, log, call, pubsub_vars, other_vars>>

\* The block is left by a return, an exception or a cancellation delivered
\* inside it: __aexit__ runs (lines 19-21)
CtxExit(u, how) ==
    /\ user[u].pc = "inblock"
    /\ LET r == aexit(locks, requests, user[u].key)
       IN /\ locks' = r.locks
          /\ requests' = r.requests
          /\ user' = [user EXCEPT ![u].pc = IF r.err = "none" THEN "idle" ELSE r.err,
                                  ![u].rounds = @ + 1,
                                  ![u].left = how]
    /\ UNCHANGED <<event_handlers, stack, result, log, call, pubsub_vars, other_vars>>

\* Task.cancel() on a task suspended in __aenter__: its pending future is
\* cancelled; a future already set stays set and the CancelledError is
\* thrown into the task when it is resumed
CancelFuture(lock, t) ==
    [lock EXCEPT !.waiters =
        [i \in DOMAIN @ |-> IF @[i].task = t /\ @[i].fut = "pending"
                             THEN [@[i] EXCEPT !.fut = "cancelled"] ELSE @[i]]]

CtxCancel(u) ==
    /\ user[u].pc = "entering"
    /\ user[u].key \in DOMAIN locks
    /\ locks' = DictSet(locks, user[u].key, CancelFuture(locks[user[u].key], u))
    /\ user' = [user EXCEPT ![u].pc = "cancelled"]
    /\ UNCHANGED <<requests, event_handlers, stack, result, log, call, pubsub_vars, other_vars>>

\* Lock.acquire resumed with CancelledError: it leaves the queue, passes a
\* wake-up it may have consumed on to the next waiter, and raises
LockCancelled(lock, t) ==
    LET ws == RemoveWaiter(lock.waiters, t)
    IN [locked |-> lock.locked,
        waiters |-> IF ~lock.locked THEN WakeUpFirst(ws) ELSE ws]

\* The CancelledError leaves acquire (line 37) and __aenter__ (line 17): the
\* block is never entered, so __aexit__ does not run
CtxCancelled(u) ==
    /\ user[u].pc = "cancelled"
    /\ user[u].key \in DOMAIN locks
    /\ locks' = DictSet(locks, user[u].key, LockCancelled(locks[user[u].key], u))
    /\ user' = [user EXCEPT ![u].pc = "idle", ![u].rounds = @ + 1,
                            ![u].left = "cancelled while waiting"]
    /\ UNCHANGED <<requests, event_handlers, stack, result, log, call, pubsub_vars, other_vars>>

ExitPaths == {"return", "raise", "cancelled in block"}

CtxNext ==
    \/ \E u \in Users, k \in AllKeys : CtxEnter(u, k)
    \/ \E u \in Users : CtxResume(u)
    \/ \E u \in Users, how \in ExitPaths : CtxExit(u, how)
    \/ \E u \in Users : CtxCancel(u)
    \/ \E u \in Users : CtxCancelled(u)

CtxSpec == Init /\ [][CtxNext]_vars

\* ------------------------------ tasks calling acquire and release directly
\* release(key) called by a task that does not hold key: after its own
\* release (a double release) or without any acquire of key
ReleaseUnheld(u, key) ==
    /\ user[u].pc \in {"idle", "holding", "inblock"}
    /\ ~(user[u].pc \in {"holding", "inblock"} /\ user[u].key = key)
    /\ user[u].left = ""
    /\ LET r == release(locks, requests, key)
       IN /\ locks' = r.locks
          /\ requests' = r.requests
          /\ user' = [user EXCEPT ![u].left = IF r.err = "none" THEN "returned"
                                                                ELSE r.err]
    /\ UNCHANGED <<event_handlers, stack, result, log, call, pubsub_vars, other_vars>>

\* One key and None are enough for every misuse of one MultiLock
RawKeys == {<<"k1">>, None}

RawNext ==
    \/ \E u \in Users, k \in RawKeys : UserAcquire(u, k)
    \/ \E u \in Users : UserResume(u)
    \/ \E u \in Users : UserRelease(u)
    \/ \E u \in Users, k \in RawKeys : ReleaseUnheld(u, k)
    \/ \E u \in Users : CtxEnter(u, None)
    \/ \E u \in Users : CtxExit(u, "return")

RawSpec == Init /\ [][RawNext]_vars

\* ------------------------------------------------------ data-access sessions
\* DB.create_session: push a new session on the task's context variable
create_session(stk, sid) == stk \o <<sid>>

\* DB.commit: the session commit is awaited on, none when the stack is empty
CommitTarget(stk) == IF stk = <<>> THEN 0 ELSE stk[Len(stk)]

\* DB.close up to `await session.close()`: pop the current session
ClosePop(stk) == IF stk = <<>> THEN stk ELSE SubSeq(stk, 1, Len(stk) - 1)

SessionCall(ops, sid, op) == DictSet(ops, sid, Append(DictGet(ops, sid, <<>>), op))

\* ------------------------------------------------------------------ pubsub
\* Subscription.__call__, lines 27-33: the cases in which it returns None
IsUnused(sub) ==
    IF sub.cls = "None" THEN TRUE ELSE cog_instance[sub.cls] = None

IsDisabledNever(sub) == FALSE

IsDisabled(sub) == PackageOf[sub.cls] \notin ENABLED_COG_PACKAGES

\* publish, line 56: the results that are not None
NonNoneKeepAll(rs) == rs

NonNone(rs) == SelectSeq(rs, LAMBDA r : r # None)

NewSubTask == [pc |-> "scheduled", ret |-> <<>>, arg |-> <<>>, sid |-> 0,
               pending |-> <<>>]

\* A subscription call ends with ret: gather's future takes the first
\* exception that one of its children raises
ChildDone(i, ret) ==
    /\ sub_task' = [sub_task EXCEPT ![i].pc = "done", ![i].ret = ret]
    /\ pub' = IF pub.pc = "gather" /\ ret \in Exceptions /\ pub.exc = None
              THEN [pub EXCEPT !.exc = ret] ELSE pub

\* A method of a cog class is decorated with @channel.subscribe: the
\* Subscription registers itself, __set_name__ records the owning class
register(cls, func) ==
    /\ pub.pc = "idle"
    /\ Len(subscriptions) < MaxSubs
    /\ subscriptions' = Append(subscriptions, [cls |-> cls, func |-> func])
    /\ UNCHANGED <<dispatch_vars, other_vars, cog_instance, pub, sub_task, sessions, session_ops>>

\* The cog class is constructed for the first time (cogs are loaded before
\* anything is published)
NewCog(c) ==
    /\ pub.pc = "idle"
    /\ cog_instance[c] = None
    /\ cog_instance' = [cog_instance EXCEPT ![c] = <<"obj", c>>]
    /\ UNCHANGED <<dispatch_vars, other_vars, subscriptions, pub, sub_task, sessions, session_ops>>

\* publish up to `await asyncio.gather(...)`: one task per subscription
publish ==
    /\ pub.pc = "idle"
    /\ pub' = [pub EXCEPT !.pc = "gather"]
    /\ sub_task' = [i \in 1..Len(subscriptions) |-> NewSubTask]
    /\ UNCHANGED <<dispatch_vars, other_vars, cog_instance, subscriptions, sessions, session_ops>>

\* Subscription.__call__ up to its first suspension: return None, or open
\* the db_context and await the subscriber function. The event loop starts
\* the tasks gather created in the order of the subscriptions.
SubCall(i) ==
    /\ i \in DOMAIN sub_task
    /\ sub_task[i].pc = "scheduled"
    /\ \A j \in 1..(i - 1) : sub_task[j].pc # "scheduled"
    /\ LET sub == subscriptions[i]
       IN IF IsUnused(sub) \/ IsDisabled(sub)
          THEN /\ ChildDone(i, None)
               /\ UNCHANGED <<sessions, session_ops>>
          ELSE /\ sessions' = [sessions EXCEPT ![i] = create_session(@, i)]
               /\ session_ops' = DictSet(session_ops, i, <<>>)
               /\ sub_task' = [sub_task EXCEPT ![i].pc = "func", ![i].sid = i,
                                               ![i].arg = cog_instance[sub.cls]]
               /\ pub' = pub
    /\ UNCHANGED <<dispatch_vars, other_vars, cog_instance, subscriptions>>

\* The subscriber function returns or raises: the finally clause of
\* db_context starts with `await db.commit()`
FuncDone(i) ==
    /\ i \in DOMAIN sub_task
    /\ sub_task[i].pc = "func"
    /\ sub_task' = [sub_task EXCEPT ![i].pc = "commit",
                                    ![i].pending = subscriptions[i].func]
    /\ UNCHANGED <<dispatch_vars, other_vars, cog_instance, subscriptions, pub, sessions, session_ops>>

\* session.commit() returns, and db.close() pops the session and awaits
\* session.close(); or session.commit() raises and the exception leaves
\* db_context before db.close() is reached
CommitDone(i, ok) ==
    /\ i \in DOMAIN sub_task
    /\ sub_task[i].pc = "commit"
    /\ IF ok
       THEN /\ session_ops' = SessionCall(session_ops, CommitTarget(sessions[i]), "commit")
            /\ sessions' = [sessions EXCEPT ![i] = ClosePop(@)]
            /\ sub_task' = [sub_task EXCEPT ![i].pc = "close"]
            /\ pub' = pub
       ELSE /\ ChildDone(i, <<"CommitError">>)
            /\ UNCHANGED <<sessions, session_ops>>
    /\ UNCHANGED <<dispatch_vars, other_vars, cog_instance, subscriptions>>

\* session.close() returns, the close event is set, db_context is left
CloseDone(i) ==
    /\ i \in DOMAIN sub_task
    /\ sub_task[i].pc = "close"
    /\ session_ops' = SessionCall(session_ops, sub_task[i].sid, "close")
    /\ ChildDone(i, sub_task[i].pending)
    /\ UNCHANGED <<dispatch_vars, other_vars, cog_instance, subscriptions, sessions>>

\* gather's future has its result: every subscription call returned
GatherReturn ==
    /\ pub.pc = "gather"
    /\ pub.exc = None
    /\ \A i \in DOMAIN sub_task : sub_task[i].pc = "done"
    /\ pub' = [pub EXCEPT !.pc = "returned",
                          !.result = NonNone([i \in DOMAIN sub_task |-> sub_task[i].ret])]
    /\ UNCHANGED <<dispatch_vars, other_vars, cog_instance, subscriptions, sub_task, sessions, session_ops>>

\* gather's future has an exception: publish raises it at line 55. publish
\* is resumed after every task gather created has run its first step.
GatherRaise ==
    /\ pub.pc = "gather"
    /\ pub.exc # None
    /\ \A i \in DOMAIN sub_task : sub_task[i].pc # "scheduled"
    /\ pub' = [pub EXCEPT !.pc = "raised",
                          !.unfinished = {i \in DOMAIN sub_task : sub_task[i].pc # "done"}]
    /\ UNCHANGED <<dispatch_vars, other_vars, cog_instance, subscriptions, sub_task, sessions, session_ops>>

PubNext ==
    \/ \E cls \in CogClasses \cup {"None"}, func \in FuncOutcomes : register(cls, func)
    \/ \E c \in CogClasses : NewCog(c)
    \/ publish
    \/ \E i \in 1..MaxSubs : SubCall(i)
    \/ \E i \in 1..MaxSubs : FuncDone(i)
    \/ \E i \in 1..MaxSubs, ok \in BOOLEAN : CommitDone(i, ok)
    \/ \E i \in 1..MaxSubs : CloseDone(i)
    \/ GatherReturn
    \/ GatherRaise

PubSpec == Init /\ [][PubNext]_vars

(***************************************************************************)
(* The stack of sessions (database/database.py, database/__init__.py).     *)
(* `_sessions` is a ContextVar holding a list: db_task[t].var is the       *)
(* identity of the list the variable holds in the context of task t, and   *)
(* lists.heap[id] is the content of list object id.  A task created by     *)
(* create_task (as gather does for the subscriptions of publish) runs in a *)
(* copy of its creator's context, holding the same list object.            *)
(* db_task[t].open lists the sessions created by the db_context blocks the *)
(* control of t is inside of, innermost last.  lists.made[sid] is session  *)
(* sid: the task that created it and the calls made on it.                 *)
(***************************************************************************)
MaxBlocks == 2

MaxSessions == 4

DbUnchanged ==
    UNCHANGED <<dispatch_vars, pubsub_vars, registered, cogs, deps, ga, split,
                on_msg>>

\* _sessions.get() in the context of task t
SessionsOf(t) == lists.heap[db_task[t].var]

\* create_task: the child starts in a copy of the parent's context
CreateTask ==
    /\ ~db_task["child"].started
    /\ db_task' = [db_task EXCEPT !["child"].started = TRUE,
                                  !["child"].var = db_task["parent"].var]
    /\ UNCHANGED lists
    /\ DbUnchanged

\* db_context up to its yield: db.create_session() stores a new list
DbEnter(t) ==
    /\ db_task[t].started
    /\ db_task[t].pc = "run"
    /\ Len(db_task[t].open) < MaxBlocks
    /\ Len(lists.made) < MaxSessions
    /\ LET sid == Len(lists.made) + 1
       IN /\ lists' = [heap |-> Append(lists.heap, create_session(SessionsOf(t), sid)),
                       made |-> Append(lists.made, [by |-> t, ops |-> <<>>])]
          /\ db_task' = [db_task EXCEPT ![t].var = Len(lists.heap) + 1,
                                        ![t].open = Append(@, sid)]
    /\ DbUnchanged

\* The block is left (it returned or raised) and the finally clause awaits
\* db.commit(): the commit of sessions[-1] returns, or it raises and the
\* exception leaves db_context before db.close()
DbCommit(t, ok) ==
    /\ db_task[t].started
    /\ db_task[t].pc = "run"
    /\ db_task[t].open # <<>>
    /\ LET target == CommitTarget(SessionsOf(t))
       IN IF ok
          THEN /\ db_task' = [db_task EXCEPT ![t].pc = "close"]
               /\ lists' = IF target = 0 THEN lists
                           ELSE [lists EXCEPT
                                   !.made[target].ops = Append(@, <<t, "commit">>)]
          ELSE /\ target # 0
               /\ db_task' = [db_task EXCEPT ![t].open = Pop(@), ![t].failed = TRUE]
               /\ lists' = lists
    /\ DbUnchanged

\* db.close(): pop the list in place, set it again, close the session
DbClose(t) ==
    /\ db_task[t].pc = "close"
    /\ LET target == CommitTarget(SessionsOf(t))
       IN lists' = IF target = 0 THEN lists
                   ELSE [lists EXCEPT
                           !.heap[db_task[t].var] = ClosePop(@),
                           !.made[target].ops = Append(@, <<t, "close">>)]
    /\ db_task' = [db_task EXCEPT ![t].pc = "run", ![t].open = Pop(@)]
    /\ DbUnchanged

DbNext ==
    \/ CreateTask
    \/ \E t \in DbTasks : DbEnter(t)
    \/ \E t \in DbTasks, ok \in BOOLEAN : DbCommit(t, ok)
    \/ \E t \in DbTasks : DbClose(t)

DbSpec == RegInit /\ [][DbNext]_vars

\* ------------------------------------------------------------------ claims

\* C1: for one key k, the tasks that acquire(k)/release(k) are in their
\* critical sections one at a time, and once every acquire(k) has had its
\* release(k), neither locks nor requests has an entry for k.
InUse(k) == {u \in Users : user[u].key = k /\ user[u].pc \in {"waiting", "holding"}}

C1_MutexAndCleanup ==
    \A k \in LockKeys :
        /\ Cardinality({u \in Users : user[u].key = k /\ user[u].pc = "holding"}) <= 1
        /\ \A u \in Users : user[u].pc \in {"idle", "waiting", "holding"}
        /\ InUse(k) = {} => k \notin DOMAIN locks /\ k \notin DOMAIN requests

\* every user has been through a critical section on the same key, all but
\* the first having queued for it, and all have released
C1_Witness ==
    \E k \in LockKeys :
        /\ \A u \in Users : user[u].pc = "idle" /\ user[u].key = k /\ user[u].rounds > 0
        /\ Cardinality({u \in Users : user[u].waited}) = NumUsers - 1
        /\ k \notin DOMAIN locks /\ k \notin DOMAIN requests


\* The step in which user u calls acquire(k)
Acquires(u, k) ==
    /\ user[u].pc = "idle"
    /\ user'[u].pc \in {"waiting", "holding"}
    /\ user'[u].key = k

Holders(k) == {v \in Users : user[v].key = k /\ user[v].pc = "holding"}

\* acquire(k) completes without waiting whenever no task holds k
C11_FreeWhenUnheld ==
    [][\A u \in Users, k \in LockKeys :
          (Acquires(u, k) /\ Holders(k) = {}) => user'[u].pc = "holding"]_vars

\* C11: keys do not block each other. acquire(k) suspends exactly when some
\* other task holds k or is queued for k, whatever tasks hold or wait for
\* any other key; so it completes without waiting whenever no task holds or
\* is queued for k.
C11_KeysIndependent ==
    [][\A u \in Users, k \in LockKeys :
          Acquires(u, k) =>
             (user'[u].pc = "waiting" <=> InUse(k) \ {u} # {})]_vars

\* a task took k without waiting while another key was held by a second
\* task and awaited by a third
C11_Witness ==
    \E u \in Users :
        /\ user[u].pc = "holding" /\ ~user[u].waited /\ user[u].sawOther
        /\ Contended(user[u].key)

\* C12: acquiring with key None is a no-op: neither acquire(None) nor
\* entering multilock[None] ever creates an entry for None in locks or
\* requests, and the caller is never suspended.
C12_NoneIsNoOp ==
    /\ None \notin DOMAIN locks
    /\ None \notin DOMAIN requests
    /\ \A u \in Users : user[u].key = None => user[u].pc \notin {"waiting", "entering"}

\* The tasks inside `async with multilock[k]`: in the block, suspended in
\* __aenter__, or cancelled there and not yet resumed
CtxInUse(k) ==
    {u \in Users : user[u].key = k /\ user[u].pc \in {"entering", "inblock", "cancelled"}}

\* C13: `async with multilock[k]` withdraws its request on every exit path
\* (return, exception, cancellation in the block or while waiting for k):
\* whenever no task holds or waits for k, neither locks nor requests
\* contains k.
C13_ReleasedOnEveryExit ==
    \A k \in LockKeys :
        CtxInUse(k) = {} => k \notin DOMAIN locks /\ k \notin DOMAIN requests

\* C14: release(k) by a task that does not hold k never returns normally,
\* and never takes a lock away from the task holding it: every holder's key
\* keeps its entry, and the entry's lock stays locked.
C14_MisuseRaises ==
    \A u \in Users :
        /\ user[u].left # "returned"
        /\ user[u].pc = "holding" =>
              user[u].key \in DOMAIN locks /\ locks[user[u].key].locked

\* The owning cog of a subscription is instantiated and its package enabled
Active(sub) ==
    /\ sub.cls \in CogClasses
    /\ cog_instance[sub.cls] # None
    /\ PackageOf[sub.cls] \in ENABLED_COG_PACKAGES

Started == {i \in DOMAIN sub_task : sub_task[i].pc # "scheduled"}

\* What the subscriptions answer, in registration order: the value of the
\* subscriber function for an active subscription, None for an inert one
Answers ==
    [i \in DOMAIN subscriptions |->
        IF Active(subscriptions[i]) THEN subscriptions[i].func ELSE None]

C17_SiblingsCancelled ==
    pub.pc = "raised" =>
        /\ pub.exc \in Exceptions
        /\ \A i \in pub.unfinished :
              sub_task[i].pc = "done" => sub_task[i].ret = <<"CancelledError">>

\* C18: db_context creates a session before its block runs, and on every
\* exit path the session was committed, then closed, and is no longer on
\* the task's session stack.
C18_TornDown ==
    \A i \in DOMAIN sub_task :
        LET t == sub_task[i]
        IN /\ t.pc = "func" => t.sid # 0 /\ sessions[i] = <<t.sid>>
           /\ (t.pc = "done" /\ t.sid # 0) =>
                /\ session_ops[t.sid] = <<"commit", "close">>
                /\ sessions[i] = <<>>

\* ------------------------------------------- vocabulary of the dispatch claims
PE == "permission_error"

\* the composite key of a task's top-level dispatch, from its arguments
CallKey(t) ==
    IF call[t].identifier = None THEN None
    ELSE <<call[t].event>> \o call[t].identifier

Called(t) == call[t] # NoCall
Finished(t) == Called(t) /\ stack[t] = <<>>

\* the dispatch at depth d of task t is between acquiring and releasing
InWindow(t, d) ==
    Len(stack[t]) >= d /\ stack[t][d].pc \in {"prepare", "handler", "nested"}

IsWaiting(t, d) == Len(stack[t]) >= d /\ stack[t][d].pc = "waiting"

IsPrepare(e) == e.callee = <<"prepare">>
IsEnd(e) == e.callee \in {<<"return">>, <<"raise">>}
IsHandler(e) == ~IsPrepare(e) /\ ~IsEnd(e)

\* the handler entries of lg[j]'s own dispatch that precede lg[j]
EarlierHandlers(lg, j) ==
    {i \in 1..(j - 1) : /\ IsHandler(lg[i])
                        /\ lg[i].depth = lg[j].depth
                        /\ \A m \in i..j : lg[m].depth >= lg[j].depth}

\* the entries of lg[j]'s own dispatch that follow lg[j]
LaterEntries(lg, j) ==
    {i \in (j + 1)..Len(lg) : /\ lg[i].depth = lg[j].depth
                              /\ \A m \in j..i : lg[m].depth >= lg[j].depth}

Range(f) == {f[i] : i \in DOMAIN f}

\* Every entry of the lock table belongs to dispatches in flight: requests
\* counts the frames holding or waiting for the key, the lock is locked
\* exactly while one of them holds it, and a free lock with waiters has handed
\* itself to the first of them.
FramesAt(k, pcs) ==
    {td \in Tasks \X {1, 2} :
        /\ Len(stack[td[1]]) >= td[2]
        /\ stack[td[1]][td[2]].identifier = k
        /\ stack[td[1]][td[2]].pc \in pcs}

KeysInPlay ==
    (DOMAIN locks) \cup (DOMAIN requests)
    \cup {stack[td[1]][td[2]].identifier :
             td \in {x \in Tasks \X {1, 2} : Len(stack[x[1]]) >= x[2]}}

LockTableSound ==
    \A k \in KeysInPlay \ {None} :
        LET holders == FramesAt(k, {"prepare", "handler", "nested"})
            waiting == FramesAt(k, {"waiting"})
            n == Cardinality(holders) + Cardinality(waiting)
        IN IF n = 0
           THEN k \notin DOMAIN locks /\ k \notin DOMAIN requests
           ELSE /\ k \in DOMAIN locks /\ k \in DOMAIN requests
                /\ requests[k] = n
                /\ Cardinality(holders) <= 1
                /\ locks[k].locked <=> Cardinality(holders) = 1
                /\ Len(locks[k].waiters) = Cardinality(waiting)
                /\ ~locks[k].locked =>
                       /\ locks[k].waiters # <<>>
                       /\ locks[k].waiters[1].fut = "done"

\* C2: two dispatches of the same event with the same non-None caller
\* identifier are never both between acquiring and releasing their lock; the
\* window of a dispatch stays open while a permission_error dispatch is nested
\* in it. The same holds of two redirected dispatches of the same origin.
C2_NoOverlap ==
    \A t1, t2 \in Tasks :
        t1 # t2 =>
          /\ ( /\ call[t1].event = call[t2].event
               /\ call[t1].identifier = call[t2].identifier
               /\ call[t1].identifier # None )
             => ~(InWindow(t1, 1) /\ InWindow(t2, 1))
          /\ CallKey(t1) = CallKey(t2) => ~(InWindow(t1, 2) /\ InWindow(t2, 2))

\* a second dispatch is kept waiting while the first runs a permission_error
\* handler nested in it
C2_Witness ==
    \E t1, t2 \in Tasks :
        /\ t1 # t2
        /\ call[t1] = call[t2]
        /\ call[t1].identifier # None
        /\ Len(stack[t1]) = 2 /\ stack[t1][1].pc = "nested" /\ stack[t1][2].pc = "handler"
        /\ IsWaiting(t2, 1)

\* C3: within one dispatch the handlers are invoked in registration order,
\* and a handler is started only when every earlier one has finished.
C3_InOrderOneAtATime ==
    \A t \in Tasks :
        LET lg == log[t]
        IN \A j \in 1..Len(lg) :
              /\ lg[j].out = "running" => j = Len(lg)
              /\ IsHandler(lg[j]) =>
                   LET n == Cardinality(EarlierHandlers(lg, j)) + 1
                       hs == HandlersOf(lg[j].event)
                   IN /\ n <= Len(hs)
                      /\ lg[j].callee = hs[n]
                      /\ \A i \in EarlierHandlers(lg, j) : lg[i].out # "running"

\* all MaxHandlers handlers of a dispatch ran, in order, and it returned True
C3_Witness ==
    \E t \in Tasks :
        /\ Finished(t) /\ result[t] = "True"
        /\ Len(HandlersOf(call[t].event)) = MaxHandlers
        /\ [i \in 1..Len(log[t]) |-> log[t][i].callee] =
              HandlersOf(call[t].event) \o <<<<"return">>>>

\* In every state: a handler that raised StopEventHandling is the last
\* handler of its dispatch, which has returned False and given up its lock.
C4_StopState ==
    /\ LockTableSound
    /\ \A t \in Tasks :
         LET lg == log[t]
         IN \A j \in 1..Len(lg) :
               lg[j].out = "StopEventHandling" =>
                 /\ j < Len(lg)
                 /\ lg[j + 1].depth = lg[j].depth
                 /\ lg[j + 1].callee = <<"return">> /\ lg[j + 1].out = "False"
                 /\ LaterEntries(lg, j) = {j + 1}
                 /\ Len(stack[t]) < lg[j].depth \/ j + 1 < Len(lg)
                 /\ lg[j].depth = 1 => result[t] = "False" /\ stack[t] = <<>>

\* In every step: what a completed handler has written to the log stays.
C4_LogKept ==
    \A t \in Tasks : \A i \in 1..Len(log[t]) :
        log[t][i].out # "running" => Len(log'[t]) >= i /\ log'[t][i] = log[t][i]

\* C4: when a handler raises StopEventHandling, no later handler of that
\* dispatch is invoked, the dispatch returns False and does not raise, its lock
\* is released, and what the completed handlers did stays.
C4_StopEndsDispatch == []C4_StopState /\ [][C4_LogKept]_vars

\* the second handler stopped a dispatch after the first one had completed
C4_Witness ==
    \E t \in Tasks :
        /\ Finished(t) /\ result[t] = "False"
        /\ Len(log[t]) = 3
        /\ log[t][1].out = "ok" /\ log[t][2].out = "StopEventHandling"
        /\ CallKey(t) # None
        /\ \E u \in Tasks :
              /\ Finished(u) /\ result[u] = "False"
              /\ Len(HandlersOf(call[u].event)) > 1
              /\ log[u][1].out = "StopEventHandling"

\* C5: prepare runs once the lock is held; when it returns None the dispatch
\* returns False without invoking a handler, otherwise the handlers get the
\* values it produced in place of the original arguments.
C5_Prepare ==
    \A t \in Tasks :
        LET lg == log[t]
        IN /\ IsWaiting(t, 1) => lg = <<>>
           /\ (call[t].prepare /\ lg # <<>>) => IsPrepare(lg[1])
           /\ \A j \in 1..Len(lg) :
                /\ IsPrepare(lg[j]) =>
                     /\ j = 1 /\ call[t].prepare
                     /\ lg[j].out = "None" =>
                          /\ Finished(t) /\ result[t] = "False"
                          /\ Len(lg) = 2 /\ lg[2].callee = <<"return">>
                     /\ (lg[j].out = "running" /\ CallKey(t) # None) =>
                          /\ CallKey(t) \in DOMAIN locks
                          /\ locks[CallKey(t)].locked
                          /\ FutureOf(locks[CallKey(t)], t) = "none"
                          /\ \A u \in Tasks \ {t} :
                                CallKey(u) = CallKey(t) => ~InWindow(u, 1)
                /\ (IsHandler(lg[j]) /\ lg[j].depth = 1) =>
                     /\ call[t].prepare => lg[1].out = "args" /\ lg[j].args = PreparedArgs
                     /\ ~call[t].prepare => lg[j].args = call[t].args

\* a dispatch under a lock key ran prepare and then its handlers with the
\* prepared values; the prepare of another dispatch returned None
C5_Witness ==
    \E t, u \in Tasks :
        /\ Finished(t) /\ call[t].prepare /\ CallKey(t) # None
        /\ Len(log[t]) > 2 /\ log[t][2].args = PreparedArgs /\ log[t][2].args # call[t].args
        /\ Finished(u) /\ log[u][1].out = "None" /\ HandlersOf(call[u].event) # <<>>


\* the handler entries of the dispatch redirected from lg[j] (a handler of
\* another event than permission_error that raised PermissionError): the
\* entries one level deeper that follow lg[j] before its dispatch goes on
Redirected(lg, j) ==
    {i \in (j + 1)..Len(lg) : /\ IsHandler(lg[i])
                              /\ \A m \in (j + 1)..i : lg[m].depth > lg[j].depth}

RedirectedEnd(lg, j) ==
    {i \in (j + 1)..Len(lg) : /\ IsEnd(lg[i])
                              /\ \A m \in (j + 1)..i : lg[m].depth > lg[j].depth}

IsRedirect(e) == IsHandler(e) /\ e.event # PE /\ e.out = "PermissionError"

\* C6 as stated: once the redirected dispatch is over, every handler
\* registered for permission_error has been invoked with the arguments of the
\* PermissionError.
C6_EveryHandlerInvoked ==
    \A t \in Tasks :
        LET lg == log[t]
        IN \A j \in 1..Len(lg) :
              (IsRedirect(lg[j]) /\ RedirectedEnd(lg, j) # {}) =>
                 /\ {lg[i].callee : i \in Redirected(lg, j)} = Range(HandlersOf(PE))
                 /\ \A i \in Redirected(lg, j) : lg[i].args = lg[j].eargs

\* C6 amended: the PermissionError of a handler of another event is caught
\* and permission_error is dispatched under the key nesting the original one;
\* its handlers are invoked in registration order, each with exactly the
\* arguments of the PermissionError, until one of them raises; all of them are
\* invoked when none raises.
C6_RedirectedInOrder ==
    \A t \in Tasks :
        LET lg == log[t]
        IN /\ Len(stack[t]) = 2 =>
                /\ stack[t][2].event = PE
                /\ stack[t][2].identifier = <<PE, PE>> \o CallKey(t)
                /\ stack[t][1].pc = "nested"
                /\ IsRedirect(lg[Len(lg) - Cardinality({i \in 1..Len(lg) :
                       \A m \in i..Len(lg) : lg[m].depth = 2})])
           /\ \A j \in 1..Len(lg) :
                IsRedirect(lg[j]) =>
                  LET called == Redirected(lg, j)
                      n == Cardinality(called)
                      hs == HandlersOf(PE)
                  IN /\ j = Len(lg) => IsWaiting(t, 2)
                     /\ j < Len(lg) => lg[j + 1].depth = lg[j].depth + 1
                     /\ n <= Len(hs)
                     /\ called = (j + 1)..(j + n)
                     /\ \A i \in 1..n : /\ lg[j + i].callee = hs[i]
                                        /\ lg[j + i].args = lg[j].eargs
                                        /\ i < n => lg[j + i].out = "ok"
                     /\ RedirectedEnd(lg, j) # {} =>
                          \/ n = Len(hs)
                          \/ lg[j + n].out \notin {"ok", "running"}

\* a redirected dispatch ran every permission_error handler with the error's
\* arguments, and another one was cut short by its first handler
C6_Witness ==
    \E t, u \in Tasks :
        /\ Finished(t) /\ CallKey(t) # None
        /\ IsRedirect(log[t][1]) /\ log[t][1].eargs # log[t][1].args
        /\ Cardinality(Redirected(log[t], 1)) = MaxHandlers
        /\ \A i \in Redirected(log[t], 1) : log[t][i].args = log[t][1].eargs
        /\ Finished(u)
        /\ IsRedirect(log[u][1]) /\ log[u][2].out = "StopEventHandling"

\* C7: a dispatch of permission_error never redirects: when one of its
\* handlers raises PermissionError no further dispatch is started and the
\* PermissionError leaves every enclosing dispatch.
C7_NoReRedirect ==
    \A t \in Tasks :
        LET lg == log[t]
        IN /\ Len(stack[t]) <= 2
           /\ \A d \in 1..Len(stack[t]) :
                stack[t][d].event = PE => stack[t][d].pc # "nested" /\ d = Len(stack[t])
           /\ \A j \in 1..Len(lg) :
                /\ lg[j].depth <= 2
                /\ (IsHandler(lg[j]) /\ lg[j].event = PE /\ lg[j].out = "PermissionError") =>
                     /\ Finished(t) /\ result[t] = "PermissionError"
                     /\ Len(lg) = j + lg[j].depth
                     /\ \A m \in (j + 1)..Len(lg) :
                          /\ lg[m].callee = <<"raise">> /\ lg[m].out = "PermissionError"
                          /\ lg[m].depth = lg[j].depth - (m - j - 1)

\* a permission_error handler reached by redirection raised PermissionError
C7_Witness ==
    \E t \in Tasks :
        /\ Finished(t) /\ call[t].event # PE /\ result[t] = "PermissionError"
        /\ \E j \in 1..Len(log[t]) :
              /\ log[t][j].depth = 2 /\ log[t][j].out = "PermissionError"
              /\ j > 1 /\ IsRedirect(log[t][j - 1])

\* What a finished top-level dispatch did, read off its log
TopHandlers(t) == {j \in 1..Len(log[t]) : IsHandler(log[t][j]) /\ log[t][j].depth = 1}
Vetoed(t) == \E j \in 1..Len(log[t]) : IsPrepare(log[t][j]) /\ log[t][j].out = "None"
Stopped(t) == \E j \in TopHandlers(t) : log[t][j].out = "StopEventHandling"
AllCalled(t) == {log[t][j].callee : j \in TopHandlers(t)} = Range(HandlersOf(call[t].event))

\* an exception left the dispatch: prepare or a handler raised one that is
\* not caught, or the dispatch redirected from a handler raised
Escaped(t) ==
    \E j \in 1..Len(log[t]) :
        /\ log[t][j].depth = 1 /\ ~IsEnd(log[t][j])
        /\ \/ log[t][j].out = "Exception"
           \/ log[t][j].out = "PermissionError" /\ log[t][j].event = PE
           \/ /\ IsRedirect(log[t][j])
              /\ \E i \in RedirectedEnd(log[t], j) : log[t][i].callee = <<"raise">>

\* C8 as stated: True exactly when prepare did not veto, every handler was
\* called and none raised StopEventHandling; False exactly when prepare vetoed
\* or a handler raised StopEventHandling.
C8_TrueExactlyWhen ==
    \A t \in Tasks :
        Finished(t) =>
          /\ result[t] = "True" <=> (~Vetoed(t) /\ AllCalled(t) /\ ~Stopped(t))
          /\ result[t] = "False" <=> (Vetoed(t) \/ Stopped(t))

\* C8 amended: True exactly when prepare did not veto, every handler was
\* called, none raised StopEventHandling and no exception left the dispatch;
\* False exactly when prepare vetoed or a handler raised StopEventHandling;
\* otherwise the dispatch raises.
C8_ReturnValue ==
    \A t \in Tasks :
        Finished(t) =>
          /\ result[t] = "True" <=>
                (~Vetoed(t) /\ AllCalled(t) /\ ~Stopped(t) /\ ~Escaped(t))
          /\ result[t] = "False" <=> (Vetoed(t) \/ Stopped(t))
          /\ result[t] \notin {"True", "False"} <=> Escaped(t)

\* one dispatch returned True though a handler's PermissionError had been
\* redirected, another raised after its last handler had been called
C8_Witness ==
    \E t, u \in Tasks :
        /\ Finished(t) /\ result[t] = "True" /\ IsRedirect(log[t][1])
        /\ Finished(u) /\ result[u] = "Exception" /\ AllCalled(u)
        /\ HandlersOf(call[u].event) # <<>>

\* C9 as stated: a dispatch of an event without handlers returns True and
\* invokes nothing, whatever its identifier and prepare are.
C9_AlwaysTrue ==
    \A t \in Tasks :
        (Finished(t) /\ HandlersOf(call[t].event) = <<>>) =>
            /\ result[t] = "True"
            /\ \A j \in 1..Len(log[t]) : IsEnd(log[t][j])

\* C9 amended: a dispatch of an event without handlers invokes no handler and
\* leaves no entry in the lock table; without prepare it invokes nothing and
\* returns True; with prepare it invokes prepare alone and returns True when
\* prepare returns an iterable, False when it returns None, and raises what
\* prepare raises.
C9_NoHandlers ==
    /\ LockTableSound
    /\ \A t \in Tasks :
         (Called(t) /\ HandlersOf(call[t].event) = <<>>) =>
            LET lg == log[t]
            IN /\ \A j \in 1..Len(lg) : ~IsHandler(lg[j])
               /\ Len(stack[t]) <= 1
               /\ Finished(t) =>
                    /\ CallKey(t) # None =>
                          \/ CallKey(t) \notin DOMAIN locks
                          \/ \E u \in Tasks \ {t} : CallKey(u) = CallKey(t) /\ ~Finished(u)
                    /\ ~call[t].prepare =>
                          /\ result[t] = "True"
                          /\ Len(lg) = 1 /\ IsEnd(lg[1])
                    /\ call[t].prepare =>
                          /\ Len(lg) = 2 /\ IsPrepare(lg[1]) /\ IsEnd(lg[2])
                          /\ lg[1].out = "args" <=> result[t] = "True"
                          /\ lg[1].out = "None" <=> result[t] = "False"
                          /\ lg[1].out = "Exception" <=> result[t] = "Exception"

\* dispatches of an event without handlers, one without prepare and one with
\* a prepare that returned an iterable, both under a lock key
C9_Witness ==
    \E t, u \in Tasks :
        /\ Finished(t) /\ HandlersOf(call[t].event) = <<>> /\ ~call[t].prepare
        /\ CallKey(t) # None /\ result[t] = "True"
        /\ Finished(u) /\ HandlersOf(call[u].event) = <<>> /\ call[u].prepare
        /\ CallKey(u) = CallKey(t) /\ result[u] = "True"

\* C10: an exception other than StopEventHandling and PermissionError raised
\* by prepare or by a handler leaves the dispatch and every dispatch that
\* encloses it: no later handler is invoked, the caller gets the exception,
\* and the locks are released, leaving no entry behind and letting the next
\* dispatch of the key go on.
C10_Propagates ==
    /\ LockTableSound
    /\ \A t \in Tasks :
         LET lg == log[t]
         IN \A j \in 1..Len(lg) :
               (~IsEnd(lg[j]) /\ lg[j].out = "Exception") =>
                  /\ Finished(t) /\ result[t] = "Exception"
                  /\ Len(lg) = j + lg[j].depth
                  /\ \A m \in (j + 1)..Len(lg) :
                        lg[m].callee = <<"raise">> /\ lg[m].out = "Exception"
                  /\ CallKey(t) # None =>
                        \/ CallKey(t) \notin DOMAIN locks
                        \/ \E u \in Tasks \ {t} : CallKey(u) = CallKey(t) /\ ~Finished(u)

\* the first handler of a dispatch raised, its second handler was never
\* invoked, and a dispatch of the same key holds the lock afterwards
C10_Witness ==
    \E t, u \in Tasks :
        /\ t # u /\ CallKey(t) = CallKey(u) /\ CallKey(t) # None
        /\ Finished(t) /\ result[t] = "Exception"
        /\ Len(HandlersOf(call[t].event)) > 1 /\ Len(log[t]) = 2
        /\ InWindow(u, 1) /\ Len(log[u]) = 2 /\ log[u][1].out = "ok"

C20_NoneNeverWaits ==
    \A t \in Tasks, d \in {1, 2} :
        call[t].identifier = None => ~IsWaiting(t, d)

\* no dispatch is in flight without some dispatch being able to take a step,
\* and once no dispatch is in flight the lock table is empty
C21_NoStuckState ==
    /\ (\E t \in Tasks : stack[t] # <<>>) => \E t \in Tasks : CanStep(t)
    /\ (\A t \in Tasks : stack[t] = <<>>) => locks = EmptyDict /\ requests = EmptyDict

\* C21: the redirected permission_error dispatch never deadlocks against the
\* dispatch that triggered it: no reachable state is stuck, and when prepare
\* steps and handlers terminate every call_event_handlers call eventually
\* returns, all locks released.
C21_NoDeadlock ==
    /\ []C21_NoStuckState
    /\ \A t \in Tasks : Called(t) ~> Finished(t)

\* two dispatches of the same event and identifier have both been through a
\* redirected permission_error dispatch and have returned
C21_Witness ==
    \E t, u \in Tasks :
        /\ t # u /\ CallKey(t) = CallKey(u) /\ CallKey(t) # None
        /\ Finished(t) /\ Finished(u)
        /\ \E j \in 1..Len(log[t]) : IsRedirect(log[t][j]) /\ RedirectedEnd(log[t], j) # {}
        /\ \E j \in 1..Len(log[u]) : IsRedirect(log[u][j]) /\ RedirectedEnd(log[u], j) # {}
        /\ locks = EmptyDict

\* A name of the form on_<event>, and the event it names
FollowsConvention(name) ==
    Len(name) >= 3 /\ name[1] = "o" /\ name[2] = "n" /\ name[3] = "_"

NamedEvents == {SubSeq(n, 4, Len(n)) : n \in {m \in FuncNames : FollowsConvention(m)}}

\* The functions the decorator accepted for event ev, in the order of the
\* registrations
Accepted(ev) ==
    LET sel == SelectSeq(registered,
                         LAMBDA r : r.out = "returned" /\ r.func.name = OnPrefix \o ev)
    IN [i \in 1..Len(sel) |-> sel[i].func]

\* C22: the listener decorator accepts exactly the functions named
\* on_<event> and appends each to the end of the handler list of <event>;
\* for any other name it raises and leaves the registry as it was. So the
\* registry always holds, per event, the accepted functions in the order of
\* their registration, and nothing else.
C22_Registration ==
    /\ \A i \in 1..Len(registered) :
          registered[i].out = IF FollowsConvention(registered[i].func.name)
                              THEN "returned" ELSE "Exception"
    /\ DOMAIN event_handlers = {ev \in NamedEvents : Accepted(ev) # <<>>}
    /\ \A ev \in DOMAIN event_handlers : event_handlers[ev] = Accepted(ev)

\* a second function on_a was appended behind the first after a function
\* with another name had been rejected
C22_Witness ==
    /\ Len(registered) = 3
    /\ registered[1].func = [name |-> <<"o", "n", "_", "a">>, id |-> 1]
    /\ registered[2].out = "Exception"
    /\ registered[3].func = [name |-> <<"o", "n", "_", "a">>, id |-> 2]
    /\ event_handlers[<<"a">>] = <<registered[1].func, registered[3].func>>

\* C23: a cog class has at most one instance: every call C(...) returns the
\* same object, which is what C.instance reads, no second object of class C is
\* ever created, and C.instance never changes once it is set.
C23_Singleton ==
    /\ \A o1, o2 \in cogs.created : o1[1] = o2[1] => o1 = o2
    /\ \A i \in 1..Len(cogs.made) :
          LET m == cogs.made[i]
          IN /\ m.ret # None
             /\ m.ret = m.view[m.cls]
             /\ \A j \in i..Len(cogs.made), c \in Hierarchy :
                   m.view[c] # None => cogs.made[j].view[c] = m.view[c]
             /\ \A j \in i..Len(cogs.made) :
                   cogs.made[j].cls = m.cls => cogs.made[j].ret = m.ret

\* a derived class and then its base class were constructed, each twice, and
\* all four calls returned one object
C23_Witness ==
    /\ Len(cogs.made) = 4
    /\ cogs.made[1].cls = "Leaf" /\ cogs.made[2].cls = "Base"
    /\ cogs.made[3].cls = "Leaf" /\ cogs.made[4].cls = "Base"
    /\ \A i \in 1..4 : cogs.made[i].ret = cogs.made[1].ret

\* obj is an instance of class c: c is the class of obj or one of its bases
IsInstance(obj, c) == \E i \in 1..Len(mro(obj[1])) : mro(obj[1])[i] = c

\* C30: in whatever order the classes of a hierarchy are constructed, C(...)
\* returns an instance of C, and C.instance, when set, is an instance of C.
C30_InstanceOfOwnClass ==
    \A i \in 1..Len(cogs.made) :
        LET m == cogs.made[i]
        IN /\ IsInstance(m.ret, m.cls)
           /\ \A c \in Hierarchy : m.view[c] # None => IsInstance(m.view[c], c)

\* C24: check_dependencies returns exactly the classes of the given cogs that
\* depend, directly or through other given cogs, on a class that is not the
\* class of a given cog; every cog left enabled has all its DEPENDENCIES among
\* the enabled given classes.  Cyclic dependency graphs are included.
DepsOf(c) == {deps.DEPENDENCIES[c][i] : i \in 1..Len(deps.DEPENDENCIES[c])}

\* S holds every given class that requires a class missing or in S.
ClosedUnderDependents(S) ==
    \A c \in deps.available :
        (\E d \in DepsOf(c) : d \notin deps.available \/ d \in S) => c \in S

C24_ExactlyUnsatisfied ==
    deps.pc = "done" =>
        /\ deps.disabled \subseteq deps.available
        /\ ClosedUnderDependents(deps.disabled)
        /\ \A S \in SUBSET deps.available :
              ClosedUnderDependents(S) => deps.disabled \subseteq S
        /\ \A c \in deps.available \ deps.disabled :
              DepsOf(c) \subseteq deps.available \ deps.disabled

\* Two given cogs that require each other are both disabled because one of
\* them requires a class without a cog.
C24_Witness ==
    /\ deps.pc = "done"
    /\ \E a, b \in deps.available :
          /\ a # b
          /\ b \in DepsOf(a) /\ a \in DepsOf(b)
          /\ DepsOf(a) \subseteq deps.available
          /\ \E m \in DepsOf(b) : m \notin deps.available
          /\ {a, b} \subseteq deps.disabled

\* C25: gather_any returns (i, r) for the coroutine that finished first, or
\* raises GatherAnyError(i, e) if that coroutine raised e, and after it has
\* returned or raised no other coroutine is still running: each is finished
\* or cancelled.
GaOver == ga.pc \in {"returned", "raised"}

\* The coroutine of task i can still execute its own code.
StillRunning(i) == ~ga.tasks[i].done /\ ~ga.tasks[i].must_cancel

C25_FirstWinsRestStopped ==
    GaOver =>
        /\ ga.ret = <<ga.result[1][1], ga.result[1][3]>>
        /\ (ga.pc = "raised") = (ga.coroutines[ga.ret[1] + 1].ends = "raise")
        /\ \A i \in 1..Len(ga.tasks) : ~StillRunning(i)

\* C26: for every text and max_size >= 1 split_lines returns non-empty
\* substrings of at most max_size characters (the first at most
\* first_max_size when given); in order they are the text with only spaces
\* and newlines dropped, at the split points and at the ends; and every
\* iteration of the loop advances the position, so the function terminates.
IsPrefix(p, t) == Len(p) <= Len(t) /\ SubSeq(t, 1, Len(p)) = p

\* t is the parts in order, separated and surrounded by spaces and newlines
\* only (possibly none).
RECURSIVE Decomposes(_, _)
Decomposes(t, parts) ==
    IF parts = <<>> THEN \A k \in 1..Len(t) : t[k] \in Whitespace
    ELSE LET u == lstrip(t)
             p == Head(parts)
         IN /\ IsPrefix(p, u)
            /\ Decomposes(SubSeq(u, Len(p) + 1, Len(u)), Tail(parts))

C26_Output ==
    split.pc = "done" =>
        /\ \A k \in 1..Len(split.ret) :
              /\ split.ret[k] # <<>>
              /\ Len(split.ret[k]) <= split.max_size \/ k = 1
        /\ split.ret # <<>> =>
              Len(split.ret[1]) <= (IF split.first_max_size = 0
                                    THEN split.max_size
                                    ELSE split.first_max_size)
        /\ Decomposes(split.arg, split.ret)

C26_Progress ==
    (split.pc = "loop" /\ split'.pc = "loop") =>
        /\ split'.i > split.i
        /\ split'.i <= Len(split.text)

RedirectReturned(t, j) ==
    /\ IsRedirect(log[t][j])
    /\ log[t][j].depth = 1
    /\ \E i \in RedirectedEnd(log[t], j) : log[t][i].callee = <<"return">>

LaterStopped(t, j) ==
    \E m \in TopHandlers(t) : m > j /\ log[t][m].out = "StopEventHandling"

\* After entry j an exception left the dispatch: a later handler raised one
\* that is not caught, or a later redirected dispatch raised.
LaterEscaped(t, j) ==
    \E m \in TopHandlers(t) :
        /\ m > j
        /\ \/ log[t][m].out = "Exception"
           \/ /\ IsRedirect(log[t][m])
              /\ \E i \in RedirectedEnd(log[t], m) : log[t][i].callee = <<"raise">>

\* The entry after the end of the nested dispatch is the call of the next
\* registered handler, or the return of True when none is left.
ContinuesInOrder(t, j) ==
    LET lg == log[t]
        i == CHOOSE i \in RedirectedEnd(lg, j) : TRUE
        k == Cardinality({m \in TopHandlers(t) : m <= j})
        hs == HandlersOf(call[t].event)
    IN /\ Len(lg) > i
       /\ lg[i + 1].depth = 1
       /\ IF k < Len(hs)
          THEN IsHandler(lg[i + 1]) /\ lg[i + 1].callee = hs[k + 1]
          ELSE lg[i + 1].callee = <<"return">> /\ lg[i + 1].out = "True"

C27_TrueUnlessStopped ==
    \A t \in Tasks : \A j \in 1..Len(log[t]) :
        RedirectReturned(t, j) =>
            /\ ContinuesInOrder(t, j)
            /\ Finished(t) =>
                  result[t] = (IF LaterStopped(t, j) THEN "False" ELSE "True")

\* C27 (amended): ... and returns True unless a later handler raises
\* StopEventHandling (it returns False) or an exception leaves the dispatch
\* later (it raises).
C27_NestedValueIgnored ==
    \A t \in Tasks : \A j \in 1..Len(log[t]) :
        RedirectReturned(t, j) =>
            /\ ContinuesInOrder(t, j)
            /\ Finished(t) =>
                  IF LaterStopped(t, j) THEN result[t] = "False"
                  ELSE IF LaterEscaped(t, j) THEN result[t] \notin {"True", "False"}
                  ELSE result[t] = "True"

\* A redirected dispatch returned False, the next handler was then called and
\* the original dispatch returned True.
C27_Witness ==
    \E t \in Tasks : \E j \in 1..Len(log[t]) :
        /\ Finished(t) /\ result[t] = "True"
        /\ RedirectReturned(t, j)
        /\ \E i \in RedirectedEnd(log[t], j) : log[t][i].out = "False"
        /\ \E m \in TopHandlers(t) : m > j /\ log[t][m].out = "ok"

\* C28: for a message of the bot itself on_message dispatches self_message
\* and nothing else; for any other message bot_ping is dispatched and
\* process_commands is called only after the message dispatch returned True;
\* and at most one of the two happens for one message.
Dispatched(event) ==
    {k \in 1..Len(on_msg.trace) : on_msg.trace[k] = Dispatch(event)}

Processed == {k \in 1..Len(on_msg.trace) : on_msg.trace[k] = <<"process_commands">>}

MessageReturnedTrueBefore(k) ==
    \E m \in 1..(k - 1) : on_msg.trace[m] = <<"ended", "message", "True">>

C28_OnMessageOrder ==
    /\ on_msg.self =>
          /\ \A k \in 1..Len(on_msg.trace) :
                Len(on_msg.trace[k]) = 2 => on_msg.trace[k] = Dispatch("self_message")
          /\ Processed = {}
    /\ (on_msg.pc # "idle" /\ ~on_msg.self) =>
          /\ Dispatched("self_message") = {}
          /\ \A k \in Dispatched("bot_ping") \cup Processed :
                MessageReturnedTrueBefore(k)
    /\ Cardinality(Dispatched("bot_ping")) + Cardinality(Processed) <= 1

\* The message dispatch of a mention of the bot's managed role returned True
\* and bot_ping was dispatched.
C28_Witness ==
    /\ ~on_msg.self
    /\ on_msg.id = "managed_role"
    /\ on_msg.pc = "returned"
    /\ Dispatched("bot_ping") # {}
    /\ Processed = {}

\* C29: the sessions of a task form a stack: inside db_context blocks
\* db.session is the session created by the innermost block still open, the
\* sessions of the enclosing blocks are open and uncommitted, after the
\* outermost block is left the stack holds no session of the task, and a
\* child task calls and removes no session of its parent.
InBlocks(t) == db_task[t].started /\ db_task[t].pc = "run"

C29_SessionStack ==
    /\ \A t \in DbTasks :
          InBlocks(t) =>
             LET open == db_task[t].open
                 stk == SessionsOf(t)
             IN /\ open # <<>> =>
                     /\ stk # <<>>
                     /\ stk[Len(stk)] = open[Len(open)]
                     /\ \A k \in 1..Len(open) : lists.made[open[k]].ops = <<>>
                /\ open = <<>> =>
                     \A k \in 1..Len(stk) : lists.made[stk[k]].by # t
    /\ \A sid \in 1..Len(lists.made) :
          lists.made[sid].by = "parent" =>
             \A k \in 1..Len(lists.made[sid].ops) :
                lists.made[sid].ops[k][1] = "parent"
    /\ db_task["child"].pc = "close" =>
          db_task["child"].var # db_task["parent"].var

====
